---- MODULE Spec2Model ----
(***************************************************************************)
(* Voter-register structuring scripts: structure_voter_data_v2.py (the     *)
(* anchor + lookahead segmenter used by process_pdf_complete.py) and       *)
(* structure_voter_data.py (the page-grouping segmenter).                  *)
(*                                                                         *)
(* A text is a sequence of Unicode code points (Python str).  Positions    *)
(* are 1-based; a position p in 1..Len(t)+1 is the place before t[p].      *)
(* Row indices of df are 1-based as well (Python's i = 0 is row 1).        *)
(***************************************************************************)
EXTENDS Integers, Sequences, FiniteSets, TLC

VARIABLES
    version,          \* which script or function runs: "v1", "v2", "pipeline", or a function alone
    df,               \* the rows read from the CSV: sequence of [Page, Text]
    i,                \* v2: loop index over df; pipeline: the number of people reported
    structured_data,  \* the records emitted so far
    groups,           \* v2: per processed anchor, the rows its values were assigned from
    pages_data,       \* v1: page -> lines, in insertion order; pipeline: the files named
    page_idx,         \* v1: index of the next page of pages_data to process
    pc,               \* control position
    text,             \* a function alone: its argument; pipeline: the lines of the PDF
    keyword,          \* extract_sequential_data: argument; pipeline: the extraction library
    results,          \* a function alone: what it returned; pipeline: the status lines printed
    raised            \* an exception escaped

vars == <<version, df, i, structured_data, groups, pages_data, page_idx, pc,
          text, keyword, results, raised>>

----------------------------------------------------------------------------
(* Python str and re primitives *)

Min(S) == CHOOSE x \in S : \A y \in S : x <= y

Max(S) == CHOOSE x \in S : \A y \in S : x >= y

\* [০-৯] : U+09E6 .. U+09EF
IsDigit(c) == c \in 2534..2543

\* \s and str.strip() on a str: the code points with str.isspace()
Whitespace ==
    {9, 10, 11, 12, 13, 28, 29, 30, 31, 32, 133, 160, 5760, 8232, 8233, 8239, 8287, 12288}
        \cup (8192..8202)

IsSpace(c) == c \in Whitespace

\* text[p:].startswith(kw)
StartsWithAt(t, p, kw) ==
    /\ p >= 1
    /\ p + Len(kw) - 1 <= Len(t)
    /\ \A k \in 1..Len(kw) : t[p + k - 1] = kw[k]

\* str.find(kw, from): first position >= from where kw occurs, 0 when absent
Find(t, kw, from) ==
    LET hits == {p \in from..(Len(t) + 1) : StartsWithAt(t, p, kw)}
    IN  IF hits = {} THEN 0 ELSE Min(hits)

\* kw in text
Contains(t, kw) == Find(t, kw, 1) # 0

\* str.strip()
strip(t) ==
    LET keep == {k \in 1..Len(t) : ~IsSpace(t[k])}
    IN  IF keep = {} THEN <<>> ELSE SubSeq(t, Min(keep), Max(keep))

\* str.split(kw) for a non-empty separator: the pieces between the
\* non-overlapping occurrences of kw, left to right
RECURSIVE SplitFrom(_, _, _)
SplitFrom(t, kw, from) ==
    LET p == Find(t, kw, from)
    IN  IF p = 0
        THEN <<SubSeq(t, from, Len(t))>>
        ELSE <<SubSeq(t, from, p - 1)>> \o SplitFrom(t, kw, p + Len(kw))

split(t, kw) == SplitFrom(t, kw, 1)

\* length of the whitespace run starting at p (what a greedy \s* takes first)
WsRun(t, p) ==
    Min({k \in p..(Len(t) + 1) : k = Len(t) + 1 \/ ~IsSpace(t[k])}) - p

\* length of the [০-৯] run starting at p
DigitRun(t, p) ==
    Min({k \in p..(Len(t) + 1) : k = Len(t) + 1 \/ ~IsDigit(t[k])}) - p

\* $ without re.MULTILINE: the end of the string, or just before a final newline
AtEnd(t, p) == p = Len(t) + 1 \/ (p = Len(t) /\ t[p] = 10)

\* A lazy group ([^Class]+?) starting at g, followed by a lookahead: the
\* first end position e > g for which every character of t[g..e-1] is outside
\* Class and the lookahead holds at e; 0 when the group cannot match.
LazyEnd(t, g, Class, Lookahead(_, _)) ==
    LET ends == {e \in (g + 1)..(Len(t) + 1) :
                    /\ \A k \in g..(e - 1) : t[k] \notin Class
                    /\ Lookahead(t, e)}
    IN  IF ends = {} THEN 0 ELSE Min(ends)

\* the concatenation of a list of lists (list.extend in a loop, ''.join)
RECURSIVE Concat(_)
Concat(ss) == IF ss = <<>> THEN <<>> ELSE Head(ss) \o Concat(Tail(ss))

----------------------------------------------------------------------------
(* Marker keywords and character classes, as written in the source *)

KW_VOTER == <<2477, 2507, 2463, 2494, 2480, 32, 2472, 2434, 58>>       \* "bhotar nong:"

KW_PITA == <<2474, 2495, 2468, 2494, 58>>                               \* "pita:"

KW_PITA_ALIAS == <<2495, 2474, 2468, 2494, 58>>                         \* "ipta:" (i-kar first)

KW_MATA == <<2478, 2494, 2468, 2494, 58>>                               \* "mata:"

KW_DOB == <<2460, 2472, 2509, 2478, 2468, 2494, 2480, 2495, 2454, 58>>  \* "jonmotarikh:"

KW_DOB_ALIAS == <<2460, 2472, 2509, 2478, 2468, 2494, 2495, 2480, 2454, 58>>

KW_PESHA == <<2474, 2503, 2486, 2494, 58>>                              \* "pesha:"

KW_PESHA_ALIAS == <<2474, 2486, 2494, 58>>                              \* "psha:"

KW_THIKANA == <<2464, 2495, 2453, 2494, 2472, 2494, 58>>                \* "thikana:"

KW_THIKANA_ALIAS == <<2495, 2464, 2453, 2494, 2472, 2494, 58>>

W_VOTER == <<2477, 2507, 2463, 2494, 2480>>                             \* "bhotar"

W_NONG == <<2472, 2434, 58>>                                            \* "nong:"

W_JONMO == <<2460, 2472, 2509, 2478>>                                   \* "jonmo"

\* the letters inside [^...] of the value pattern of extract_sequential_data
SeqClass == {2453, 2460, 2463, 2464, 2468, 2472, 2474, 2477, 2478, 2480,
             2486, 2494, 2495, 2503, 2507, 2509}

\* the six marker keywords the specification names
MarkerKeywords == {KW_PITA, KW_MATA, KW_DOB, KW_THIKANA, KW_PESHA, KW_VOTER}

----------------------------------------------------------------------------
(* structure_voter_data_v2.py: extract_sequential_data *)

\* (?:pita:|mata:|jonmotarikh:|thikana:|pesha:|bhotar\s+nong:) at q
SeqMarkerAt(t, q) ==
    \/ StartsWithAt(t, q, KW_PITA)
    \/ StartsWithAt(t, q, KW_MATA)
    \/ StartsWithAt(t, q, KW_DOB)
    \/ StartsWithAt(t, q, KW_THIKANA)
    \/ StartsWithAt(t, q, KW_PESHA)
    \/ /\ StartsWithAt(t, q, W_VOTER)
       /\ WsRun(t, q + Len(W_VOTER)) >= 1
       /\ StartsWithAt(t, q + Len(W_VOTER) + WsRun(t, q + Len(W_VOTER)), W_NONG)

\* (?=\s+(?:...)|$) at e
SeqLookahead(t, e) ==
    \/ WsRun(t, e) >= 1 /\ SeqMarkerAt(t, e + WsRun(t, e))
    \/ AtEnd(t, e)

\* re.match(r'^\s*([^...]+?)(?=\s+(?:...)|$)', part): the greedy \s* gives
\* back one character at a time until the lazy group and the lookahead succeed
SeqValueMatch(part) ==
    LET ws == {w \in 0..WsRun(part, 1) :
                  LazyEnd(part, 1 + w, SeqClass, SeqLookahead) # 0}
        g  == 1 + Max(ws)
    IN  IF ws = {}
        THEN [matched |-> FALSE, group |-> <<>>]
        ELSE [matched |-> TRUE,
              group |-> SubSeq(part, g, LazyEnd(part, g, SeqClass, SeqLookahead) - 1)]

\* a slip in the value of a part: no fallback when the pattern does not match
SeqPartValue_NoFallback(part) ==
    LET match == SeqValueMatch(part)
    IN  IF match.matched THEN strip(match.group) ELSE <<>>

\* the value taken from one part: the stripped group, or the stripped part
\* when the pattern does not match
SeqPartValue(part) ==
    LET match == SeqValueMatch(part)
    IN  IF match.matched THEN strip(match.group) ELSE strip(part)

\* the loop over parts[1:], appending the non-empty values
RECURSIVE SeqCollect(_)
SeqCollect(parts) ==
    IF parts = <<>>
    THEN <<>>
    ELSE LET value == SeqPartValue(Head(parts))
         IN  (IF value # <<>> THEN <<value>> ELSE <<>>) \o SeqCollect(Tail(parts))

\* a slip in the loop: parts instead of parts[1:]
extract_sequential_data_AllParts(t, kw) == SeqCollect(split(t, kw))

extract_sequential_data(t, kw) == SeqCollect(Tail(split(t, kw)))

\* str.split raises ValueError on an empty separator; nothing else in the
\* function raises for a str argument
extract_raises(t, kw) == kw = <<>>

----------------------------------------------------------------------------
(* structure_voter_data_v2.py: structure_voter_data, the pieces of one loop turn *)

\* the boilerplate phrases of the header test
HeaderKeywordsV2 == {
    <<2438, 2470, 2478, 2460, 2496>>,
    <<2453, 2509, 2479, 2494, 2472, 2509, 2463, 2472, 2478, 2503, 2472, 2509, 2463>>,
    <<2447, 2482, 2494, 2453, 2494, 32, 2453, 2507, 2465>>,
    <<2474, 2499, 2487, 2509, 2464, 2494>>,
    <<2453, 2509, 2480, 2495, 2478, 2453>>,
    <<2477, 2494, 2476, 2472>>,
    <<2453, 2503, 2472, 2509, 2470, 2509, 2480>>}

\* any(keyword in text for keyword in [...])
IsHeaderV2(t) == \E kw \in HeaderKeywordsV2 : Contains(t, kw)

\* re.match(r'^[০-৯]+\.\s+', text)
IsNameLine(t) ==
    /\ DigitRun(t, 1) >= 1
    /\ StartsWithAt(t, 1 + DigitRun(t, 1), <<46>>)
    /\ WsRun(t, 2 + DigitRun(t, 1)) >= 1

\* (?=\s+[০-৯]+\.|$) at e
NameLookahead(t, e) ==
    \/ /\ WsRun(t, e) >= 1
       /\ DigitRun(t, e + WsRun(t, e)) >= 1
       /\ StartsWithAt(t, e + WsRun(t, e) + DigitRun(t, e + WsRun(t, e)), <<46>>)
    \/ AtEnd(t, e)

\* One attempt of [০-৯]+\.\s{minws,}([^০-৯]+?)(?=\s+[০-৯]+\.|$) at start s:
\* the digit run, the period, the greedy whitespace (giving back down to
\* minws), the lazy group.  from/to delimit the group; ok tells a match.
NameMatchAt(t, s, minws) ==
    LET d    == DigitRun(t, s)
        dot  == s + d
        ws   == {w \in minws..WsRun(t, dot + 1) :
                    LazyEnd(t, dot + 1 + w, 2534..2543, NameLookahead) # 0}
        g    == dot + 1 + Max(ws)
    IN  IF d >= 1 /\ StartsWithAt(t, dot, <<46>>) /\ ws # {}
        THEN [ok |-> TRUE, from |-> g, to |-> LazyEnd(t, g, 2534..2543, NameLookahead)]
        ELSE [ok |-> FALSE, from |-> 0, to |-> 0]

\* re.findall(pattern, text): the groups of the non-overlapping matches, the
\* search resuming where the previous match ended
RECURSIVE NameFindall(_, _, _)
NameFindall(t, s, minws) ==
    LET starts == {p \in s..Len(t) : NameMatchAt(t, p, minws).ok}
    IN  IF starts = {}
        THEN <<>>
        ELSE LET m == NameMatchAt(t, Min(starts), minws)
             IN  <<SubSeq(t, m.from, m.to - 1)>> \o NameFindall(t, m.to, minws)

\* the stripped, non-empty entries of a list of matches
RECURSIVE StripNonEmpty(_)
StripNonEmpty(ms) ==
    IF ms = <<>>
    THEN <<>>
    ELSE LET name == strip(Head(ms))
         IN  (IF name # <<>> THEN <<name>> ELSE <<>>) \o StripNonEmpty(Tail(ms))

\* names of an anchor line (v2 pattern: \s+ after the period)
NamesV2(t) == StripNonEmpty(NameFindall(t, 1, 1))

\* str.replace(old, new)
RECURSIVE ReplaceFrom(_, _, _, _)
ReplaceFrom(t, old, new, from) ==
    LET p == Find(t, old, from)
    IN  IF p = 0
        THEN SubSeq(t, from, Len(t))
        ELSE SubSeq(t, from, p - 1) \o new \o ReplaceFrom(t, old, new, p + Len(old))

replace(t, old, new) == ReplaceFrom(t, old, new, 1)

\* [০-৯/]
IsDateChar(c) == IsDigit(c) \/ c = 47

\* re.search(r'([০-৯/]+)', part): the first maximal run of date characters
DobSearch(part) ==
    LET hits == {p \in 1..Len(part) : IsDateChar(part[p])}
    IN  IF hits = {}
        THEN [ok |-> FALSE, group |-> <<>>]
        ELSE [ok |-> TRUE,
              group |-> SubSeq(part, Min(hits),
                               Min({k \in Min(hits)..(Len(part) + 1) :
                                       k = Len(part) + 1 \/ ~IsDateChar(part[k])}) - 1)]

\* the letters inside [^...] of the profession pattern
ProfClass == {2453, 2460, 2464, 2472, 2474, 2478, 2486, 2494, 2495, 2503, 2509}

\* (?=\s+jonmotarikh:|thikana:|pesha:|$) at e
ProfLookahead(t, e) ==
    \/ WsRun(t, e) >= 1 /\ StartsWithAt(t, e + WsRun(t, e), KW_DOB)
    \/ StartsWithAt(t, e, KW_THIKANA)
    \/ StartsWithAt(t, e, KW_PESHA)
    \/ AtEnd(t, e)

\* prof_text.split()[0] if prof_text.split() else ''
FirstWord(t) ==
    IF strip(t) = <<>>
    THEN <<>>
    ELSE LET u == strip(t)
         IN  SubSeq(u, 1, Min({k \in 1..(Len(u) + 1) : k = Len(u) + 1 \/ IsSpace(u[k])}) - 1)

\* the profession of one part, given the position of "pesha:" in it
Profession(part, prof_pos) ==
    LET prof_text == strip(SubSeq(part, prof_pos + Len(KW_PESHA), Len(part)))
        e == LazyEnd(prof_text, 1, ProfClass, ProfLookahead)
    IN  IF e # 0 THEN strip(SubSeq(prof_text, 1, e - 1)) ELSE FirstWord(prof_text)

\* the loop over parts[1:] of the date line
RECURSIVE DobCollect(_)
DobCollect(parts) ==
    IF parts = <<>>
    THEN <<>>
    ELSE LET part == Head(parts)
             m == DobSearch(part)
             prof_pos == Find(part, KW_PESHA, 1)
         IN  (IF ~m.ok THEN <<>>
              ELSE IF prof_pos # 0
                   THEN <<[dob |-> strip(m.group), profession |-> Profession(part, prof_pos)]>>
                   ELSE <<[dob |-> strip(m.group), profession |-> <<>>]>>)
             \o DobCollect(Tail(parts))

\* the date/profession pairs of a window line
DobProfessions(next_text) ==
    DobCollect(Tail(split(replace(replace(next_text, KW_DOB_ALIAS, KW_DOB),
                                  KW_PESHA_ALIAS, KW_PESHA), KW_DOB)))

\* the conditions under which a window line is examined for a category
TaggedVoter(t) == Contains(t, KW_VOTER)

TaggedFather(t) ==
    (Contains(t, KW_PITA) \/ Contains(t, KW_PITA_ALIAS)) /\ ~Contains(t, KW_MATA)

TaggedMother(t) == Contains(t, KW_MATA)

TaggedDob(t) ==
    /\ Contains(t, KW_DOB) \/ Contains(t, KW_DOB_ALIAS)
    /\ Contains(t, KW_PESHA) \/ Contains(t, KW_PESHA_ALIAS)

TaggedAddress(t) == Contains(t, KW_THIKANA) \/ Contains(t, KW_THIKANA_ALIAS)

FathersOf(t) ==
    IF Contains(t, KW_PITA) THEN extract_sequential_data(t, KW_PITA)
    ELSE extract_sequential_data(t, KW_PITA_ALIAS)

AddressesOf(t) ==
    IF Contains(t, KW_THIKANA) THEN extract_sequential_data(t, KW_THIKANA)
    ELSE extract_sequential_data(t, KW_THIKANA_ALIAS)

\* range(1, 6): the window is the next five rows
LookaheadDepth == 5

\* the five lists before the window is scanned; src records, per category,
\* the row whose extraction was last assigned to the list (0: none)
EmptyLookahead ==
    [voter_ids |-> <<>>, fathers |-> <<>>, mothers |-> <<>>,
     dob_professions |-> <<>>, addresses |-> <<>>,
     src |-> [NID |-> 0, Father |-> 0, Mother |-> 0, DOB |-> 0, Address |-> 0]]

\* the body of the for-j loop on row r with stripped text nt
ScanLine(acc, nt, r) ==
    LET v == TaggedVoter(nt) /\ acc.voter_ids = <<>>
        f == TaggedFather(nt) /\ acc.fathers = <<>>
        m == TaggedMother(nt) /\ acc.mothers = <<>>
        b == TaggedDob(nt) /\ acc.dob_professions = <<>>
        a == TaggedAddress(nt) /\ acc.addresses = <<>>
    IN  [voter_ids |-> IF v THEN extract_sequential_data(nt, KW_VOTER) ELSE acc.voter_ids,
         fathers |-> IF f THEN FathersOf(nt) ELSE acc.fathers,
         mothers |-> IF m THEN extract_sequential_data(nt, KW_MATA) ELSE acc.mothers,
         dob_professions |-> IF b THEN DobProfessions(nt) ELSE acc.dob_professions,
         addresses |-> IF a THEN AddressesOf(nt) ELSE acc.addresses,
         src |-> [NID |-> IF v THEN r ELSE acc.src.NID,
                  Father |-> IF f THEN r ELSE acc.src.Father,
                  Mother |-> IF m THEN r ELSE acc.src.Mother,
                  DOB |-> IF b THEN r ELSE acc.src.DOB,
                  Address |-> IF a THEN r ELSE acc.src.Address]]

\* a slip in the window: the depth test left out, the scan runs to the end
RECURSIVE LookaheadFrom_NoDepth(_, _, _, _)
LookaheadFrom_NoDepth(d, a, j, acc) ==
    IF a + j > Len(d)
    THEN acc
    ELSE LookaheadFrom_NoDepth(d, a, j + 1, ScanLine(acc, strip(d[a + j].Text), a + j))

\* for j in range(1, 6): if i + j >= len(df): break; ...
RECURSIVE LookaheadFrom(_, _, _, _)
LookaheadFrom(d, a, j, acc) ==
    IF j > LookaheadDepth \/ a + j > Len(d)
    THEN acc
    ELSE LookaheadFrom(d, a, j + 1, ScanLine(acc, strip(d[a + j].Text), a + j))

Lookahead(d, a) == LookaheadFrom(d, a, 1, EmptyLookahead)

\* lst[idx] if idx < len(lst) else ''
At(lst, idx) == IF idx <= Len(lst) THEN lst[idx] ELSE <<>>

\* a slip in the emit count: the shortest list instead of the longest
MaxCount_Min(names, la) ==
    Min({Len(names), Len(la.voter_ids), Len(la.fathers), Len(la.mothers),
         Len(la.dob_professions), Len(la.addresses)})

\* max(len(...), ...)
MaxCount(names, la) ==
    Max({Len(names), Len(la.voter_ids), Len(la.fathers), Len(la.mothers),
         Len(la.dob_professions), Len(la.addresses)})

\* one record: element idx of each list, '' where the list is shorter
RecordAt(names, la, page, idx) ==
    [Name |-> At(names, idx),
     NID |-> At(la.voter_ids, idx),
     Father |-> At(la.fathers, idx),
     Mother |-> At(la.mothers, idx),
     DOB |-> IF idx <= Len(la.dob_professions) THEN la.dob_professions[idx].dob ELSE <<>>,
     Profession |-> IF idx <= Len(la.dob_professions)
                    THEN la.dob_professions[idx].profession ELSE <<>>,
     Address |-> At(la.addresses, idx),
     Page |-> page]

\* the records appended for one anchor: matching by index
GroupRecords(names, la, page) ==
    [idx \in 1..MaxCount(names, la) |-> RecordAt(names, la, page, idx)]

\* the records of the anchor at row a of d
AnchorRecords(d, a) ==
    GroupRecords(NamesV2(strip(d[a].Text)), Lookahead(d, a), d[a].Page)

----------------------------------------------------------------------------
(* structure_voter_data_v2.py: structure_voter_data as a state machine, one
   action per turn of the while loop *)

\* text = str(row['Text']).strip()
RowText(d, a) == strip(d[a].Text)

\* if any(keyword in text ...): i += 1; continue
SkipHeader ==
    /\ version = "v2"
    /\ pc = "loop"
    /\ i <= Len(df)
    /\ IsHeaderV2(RowText(df, i))
    /\ i' = i + 1
    /\ UNCHANGED <<version, df, structured_data, groups, pages_data, page_idx, pc,
                   text, keyword, results, raised>>

\* a slip in the emission: the new records put in front of the list
ProcessAnchor_Prepend ==
    /\ version = "v2"
    /\ pc = "loop"
    /\ i <= Len(df)
    /\ ~IsHeaderV2(RowText(df, i))
    /\ IsNameLine(RowText(df, i))
    /\ LET cleaned_names == NamesV2(RowText(df, i))
           lists == Lookahead(df, i)
           emitted == GroupRecords(cleaned_names, lists, df[i].Page)
       IN  /\ structured_data' = emitted \o structured_data
           /\ groups' = Append(groups, [anchor |-> i,
                                        first |-> Len(structured_data) + 1,
                                        count |-> Len(emitted),
                                        names |-> cleaned_names,
                                        lists |-> lists])
    /\ i' = i + 1
    /\ UNCHANGED <<version, df, pages_data, page_idx, pc, text, keyword, results, raised>>

\* if re.match(...): names, lookahead, append the records; i += 1
ProcessAnchor ==
    /\ version = "v2"
    /\ pc = "loop"
    /\ i <= Len(df)
    /\ ~IsHeaderV2(RowText(df, i))
    /\ IsNameLine(RowText(df, i))
    /\ LET cleaned_names == NamesV2(RowText(df, i))
           lists == Lookahead(df, i)
           emitted == GroupRecords(cleaned_names, lists, df[i].Page)
       IN  /\ structured_data' = structured_data \o emitted
           /\ groups' = Append(groups, [anchor |-> i,
                                        first |-> Len(structured_data) + 1,
                                        count |-> Len(emitted),
                                        names |-> cleaned_names,
                                        lists |-> lists])
    /\ i' = i + 1
    /\ UNCHANGED <<version, df, pages_data, page_idx, pc, text, keyword, results, raised>>

\* any other row: i += 1
SkipLine ==
    /\ version = "v2"
    /\ pc = "loop"
    /\ i <= Len(df)
    /\ ~IsHeaderV2(RowText(df, i))
    /\ ~IsNameLine(RowText(df, i))
    /\ i' = i + 1
    /\ UNCHANGED <<version, df, structured_data, groups, pages_data, page_idx, pc,
                   text, keyword, results, raised>>

\* while i < len(df) ends: result_df = pd.DataFrame(structured_data); return
Return ==
    /\ version = "v2"
    /\ pc = "loop"
    /\ i > Len(df)
    /\ pc' = "done"
    /\ UNCHANGED <<version, df, i, structured_data, groups, pages_data, page_idx,
                   text, keyword, results, raised>>

NextV2 == SkipHeader \/ ProcessAnchor \/ SkipLine \/ Return

\* the records one loop turn at row a appends
TurnRecords(d, a) ==
    IF ~IsHeaderV2(RowText(d, a)) /\ IsNameLine(RowText(d, a))
    THEN AnchorRecords(d, a)
    ELSE <<>>

\* the whole loop from row a on: what structure_voter_data returns for d
RECURSIVE StructureFrom(_, _)
StructureFrom(d, a) ==
    IF a > Len(d) THEN <<>> ELSE TurnRecords(d, a) \o StructureFrom(d, a + 1)

structure_voter_data_v2(d) == StructureFrom(d, 1)

----------------------------------------------------------------------------
(* structure_voter_data.py: the extractors *)

\* names of a name line (v1 pattern: \s* after the period)
extract_names(line) == StripNonEmpty(NameFindall(line, 1, 0))

\* one attempt of bhotar\s+nong:\s*([০-৯]+) at start s; from/to delimit the group
VoterMatchAt(t, s) ==
    LET a  == s + Len(W_VOTER)
        b  == a + WsRun(t, a) + Len(W_NONG)
        g  == b + WsRun(t, b)
    IN  IF /\ StartsWithAt(t, s, W_VOTER)
           /\ WsRun(t, a) >= 1
           /\ StartsWithAt(t, a + WsRun(t, a), W_NONG)
           /\ DigitRun(t, g) >= 1
        THEN [ok |-> TRUE, from |-> g, to |-> g + DigitRun(t, g)]
        ELSE [ok |-> FALSE, from |-> 0, to |-> 0]

RECURSIVE VoterFindall(_, _)
VoterFindall(t, s) ==
    LET starts == {p \in s..Len(t) : VoterMatchAt(t, p).ok}
    IN  IF starts = {}
        THEN <<>>
        ELSE LET m == VoterMatchAt(t, Min(starts))
             IN  <<SubSeq(t, m.from, m.to - 1)>> \o VoterFindall(t, m.to)

extract_voter_ids(line) == VoterFindall(line, 1)

\* re.split(kw + r'\s*', line): the pieces between the occurrences of the
\* keyword, each occurrence taking the whitespace after it
RECURSIVE ReSplitFrom(_, _, _)
ReSplitFrom(t, kw, from) ==
    LET p == Find(t, kw, from)
    IN  IF p = 0
        THEN <<SubSeq(t, from, Len(t))>>
        ELSE <<SubSeq(t, from, p - 1)>>
             \o ReSplitFrom(t, kw, p + Len(kw) + WsRun(t, p + Len(kw)))

\* the letters inside [^...] of the v1 value pattern
V1Class == {2453, 2460, 2464, 2468, 2472, 2474, 2478, 2486, 2494, 2495, 2503, 2509}

\* (?=\s+pita:|mata:|jonmo|thikana:|pesha:|$) at e
V1Lookahead(t, e) ==
    \/ WsRun(t, e) >= 1 /\ StartsWithAt(t, e + WsRun(t, e), KW_PITA)
    \/ StartsWithAt(t, e, KW_MATA)
    \/ StartsWithAt(t, e, W_JONMO)
    \/ StartsWithAt(t, e, KW_THIKANA)
    \/ StartsWithAt(t, e, KW_PESHA)
    \/ AtEnd(t, e)

\* the loop over parts[1:]: a value only where the pattern matches
RECURSIVE V1Collect(_)
V1Collect(parts) ==
    IF parts = <<>>
    THEN <<>>
    ELSE LET part == Head(parts)
             e == LazyEnd(part, 1, V1Class, V1Lookahead)
             value == strip(SubSeq(part, 1, e - 1))
         IN  (IF e # 0 /\ value # <<>> THEN <<value>> ELSE <<>>) \o V1Collect(Tail(parts))

extract_fathers(line) == V1Collect(Tail(ReSplitFrom(line, KW_PITA, 1)))

extract_mothers(line) == V1Collect(Tail(ReSplitFrom(line, KW_MATA, 1)))

extract_addresses(line) == V1Collect(Tail(ReSplitFrom(line, KW_THIKANA, 1)))

\* length of the [০-৯/] run starting at p
DateRun(t, p) ==
    Min({k \in p..(Len(t) + 1) : k = Len(t) + 1 \/ ~IsDateChar(t[k])}) - p

\* one attempt of jonmotarikh:\s*([০-৯/]+)\s+pesha:\s*([^...]+?)(?=...) at s
DobProfMatchAt(t, s) ==
    LET a   == s + Len(KW_DOB)
        d   == a + WsRun(t, a)
        sp  == d + DateRun(t, d)
        k   == sp + WsRun(t, sp)
        b   == k + Len(KW_PESHA)
        ws  == {w \in 0..WsRun(t, b) : LazyEnd(t, b + w, ProfClass, ProfLookahead) # 0}
        g   == b + Max(ws)
    IN  IF /\ StartsWithAt(t, s, KW_DOB)
           /\ DateRun(t, d) >= 1
           /\ WsRun(t, sp) >= 1
           /\ StartsWithAt(t, k, KW_PESHA)
           /\ ws # {}
        THEN [ok |-> TRUE, dob |-> SubSeq(t, d, sp - 1),
              from |-> g, to |-> LazyEnd(t, g, ProfClass, ProfLookahead)]
        ELSE [ok |-> FALSE, dob |-> <<>>, from |-> 0, to |-> 0]

RECURSIVE DobProfFindall(_, _)
DobProfFindall(t, s) ==
    LET starts == {p \in s..Len(t) : DobProfMatchAt(t, p).ok}
    IN  IF starts = {}
        THEN <<>>
        ELSE LET m == DobProfMatchAt(t, Min(starts))
             IN  <<[dob |-> m.dob, profession |-> SubSeq(t, m.from, m.to - 1)]>>
                 \o DobProfFindall(t, m.to)

extract_dob_profession(line) ==
    LET matches == DobProfFindall(line, 1)
    IN  [k \in 1..Len(matches) |->
            [dob |-> strip(matches[k].dob), profession |-> strip(matches[k].profession)]]

----------------------------------------------------------------------------
(* structure_voter_data.py: structure_voter_data as a state machine: one
   action per row of the grouping loop, one per page of the page loop *)

\* the header phrases of v1 (no "kendro")
HeaderKeywordsV1 == {
    <<2438, 2470, 2478, 2460, 2496>>,
    <<2453, 2509, 2479, 2494, 2472, 2509, 2463, 2472, 2478, 2503, 2472, 2509, 2463>>,
    <<2447, 2482, 2494, 2453, 2494, 32, 2453, 2507, 2465>>,
    <<2474, 2499, 2487, 2509, 2464, 2494>>,
    <<2453, 2509, 2480, 2495, 2478, 2453>>,
    <<2477, 2494, 2476, 2472>>}

IsHeaderV1(t) == \E kw \in HeaderKeywordsV1 : Contains(t, kw)

\* pages_data[page].append(text), a new page entering at the end
AddLine(pd, page, line) ==
    IF \E k \in 1..Len(pd) : pd[k].page = page
    THEN [k \in 1..Len(pd) |->
            IF pd[k].page = page
            THEN [page |-> page, lines |-> Append(pd[k].lines, line)]
            ELSE pd[k]]
    ELSE Append(pd, [page |-> page, lines |-> <<line>>])

\* [l for l in lines if keep(l)]
Filter(lines, keep(_)) == SelectSeq(lines, keep)

\* for line in lines: all.extend(extract(line))
ExtendAll(lines, extract(_)) == Concat([k \in 1..Len(lines) |-> extract(lines[k])])

IsVoterLineV1(l) == Contains(l, KW_VOTER)

IsFatherLineV1(l) == Contains(l, KW_PITA) /\ ~Contains(l, KW_MATA)

IsMotherLineV1(l) == Contains(l, KW_MATA)

IsDobProfLineV1(l) == Contains(l, KW_DOB) /\ Contains(l, KW_PESHA)

IsAddressLineV1(l) == Contains(l, KW_THIKANA)

\* the lists of one page, in the shape the index matching reads
PageLists(lines) ==
    [voter_ids |-> ExtendAll(Filter(lines, IsVoterLineV1), extract_voter_ids),
     fathers |-> ExtendAll(Filter(lines, IsFatherLineV1), extract_fathers),
     mothers |-> ExtendAll(Filter(lines, IsMotherLineV1), extract_mothers),
     dob_professions |-> ExtendAll(Filter(lines, IsDobProfLineV1), extract_dob_profession),
     addresses |-> ExtendAll(Filter(lines, IsAddressLineV1), extract_addresses)]

\* the records of one page
PageRecords(page, lines) ==
    GroupRecords(ExtendAll(Filter(lines, IsNameLine), extract_names), PageLists(lines), page)

\* a header row of the grouping loop: continue
SkipHeaderV1 ==
    /\ version = "v1"
    /\ pc = "loop"
    /\ i <= Len(df)
    /\ IsHeaderV1(RowText(df, i))
    /\ i' = i + 1
    /\ UNCHANGED <<version, df, structured_data, groups, pages_data, page_idx, pc,
                   text, keyword, results, raised>>

\* any other row of the grouping loop: pages_data[page].append(text)
GroupRow ==
    /\ version = "v1"
    /\ pc = "loop"
    /\ i <= Len(df)
    /\ ~IsHeaderV1(RowText(df, i))
    /\ pages_data' = AddLine(pages_data, df[i].Page, RowText(df, i))
    /\ i' = i + 1
    /\ UNCHANGED <<version, df, structured_data, groups, page_idx, pc,
                   text, keyword, results, raised>>

\* one turn of: for page, lines in pages_data.items()
ProcessPage ==
    /\ version = "v1"
    /\ pc = "loop"
    /\ i > Len(df)
    /\ page_idx <= Len(pages_data)
    /\ structured_data' = structured_data
            \o PageRecords(pages_data[page_idx].page, pages_data[page_idx].lines)
    /\ page_idx' = page_idx + 1
    /\ UNCHANGED <<version, df, i, groups, pages_data, pc, text, keyword, results, raised>>

ReturnV1 ==
    /\ version = "v1"
    /\ pc = "loop"
    /\ i > Len(df)
    /\ page_idx > Len(pages_data)
    /\ pc' = "done"
    /\ UNCHANGED <<version, df, i, structured_data, groups, pages_data, page_idx,
                   text, keyword, results, raised>>

NextV1 == SkipHeaderV1 \/ GroupRow \/ ProcessPage \/ ReturnV1

----------------------------------------------------------------------------
(* Bounded inputs of the segmenters *)

MaxRows == 3

MaxWindowRows == 7

Pages == {1, 2}

L_A1 == <<2535, 46, 32, 2480, 2489, 2495, 2478>>                 \* "1. rahim"

L_A2 == <<2535, 46, 32, 2480, 2489, 2495, 2478, 32,
          2536, 46, 32, 2453, 2480, 2495, 2478>>                 \* "1. rahim 2. karim"

L_ID2 == KW_VOTER \o <<32, 2535, 2536, 32>> \o KW_VOTER \o <<32, 2537, 2538>>

L_IDE == KW_VOTER                                                \* the marker and no value

L_F2 == KW_PITA \o <<32, 2438, 2482, 2496, 32>> \o KW_PITA \o <<32, 2451, 2478, 2480>>

L_FM == KW_PITA \o <<32, 2438, 2482, 2496, 32>> \o KW_MATA \o <<32, 2478, 2495, 2472, 2494>>

L_HDR == <<2474, 2499, 2487, 2509, 2464, 2494, 32, 2535>>        \* "prishtha 1"

Corpus == {L_A1, L_A2, L_ID2, L_IDE, L_F2, L_FM, L_HDR}

WindowCorpus == {L_A1, L_F2, L_HDR}

\* the streams of at most n rows over the lines C, pages in reading order
Streams(C, P, n) ==
    {s \in UNION {[1..k -> [Page : P, Text : C]] : k \in 0..n} :
        \A j \in 1..(Len(s) - 1) : s[j].Page <= s[j + 1].Page}

InitSegmenter(C, P, n) ==
    /\ df \in Streams(C, P, n)
    /\ i = 1
    /\ structured_data = <<>>
    /\ groups = <<>>
    /\ pages_data = <<>>
    /\ page_idx = 1
    /\ pc = "loop"
    /\ text = <<>>
    /\ keyword = <<>>
    /\ results = <<>>
    /\ raised = FALSE

Init == version = "v2" /\ InitSegmenter(Corpus, Pages, MaxRows)

Next == NextV2

Spec == Init /\ [][Next]_vars

InitV1 == version = "v1" /\ InitSegmenter(Corpus, Pages, MaxRows)

SpecV1 == InitV1 /\ [][NextV1]_vars

InitWindow == version = "v2" /\ InitSegmenter(WindowCorpus, {1}, MaxWindowRows)

SpecWindow == InitWindow /\ [][NextV2]_vars

----------------------------------------------------------------------------
(* The extractor alone, on bounded texts *)

MaxSegs == 4

\* the words the texts are built from: markers, the empty word (it makes
\* runs of spaces), a value free of the class letters ("12") and a value
\* with class letters ("mina")
Segments == {KW_MATA, KW_THIKANA, KW_VOTER, <<>>, <<2535, 2536>>, <<2478, 2495, 2472, 2494>>}

\* ' '.join(ss)
RECURSIVE JoinSpace(_)
JoinSpace(ss) ==
    IF ss = <<>> THEN <<>>
    ELSE IF Len(ss) = 1 THEN Head(ss)
    ELSE Head(ss) \o <<32>> \o JoinSpace(Tail(ss))

\* the texts of at most MaxSegs words
Texts == {JoinSpace(ss) : ss \in UNION {[1..n -> Segments] : n \in 0..MaxSegs}}

ExtractKeywords == {KW_MATA, KW_THIKANA, KW_VOTER}

InitExtract ==
    /\ version = "extract"
    /\ df = <<>>
    /\ i = 1
    /\ structured_data = <<>>
    /\ groups = <<>>
    /\ pages_data = <<>>
    /\ page_idx = 1
    /\ pc = "call"
    /\ text \in Texts
    /\ keyword \in ExtractKeywords
    /\ results = <<>>
    /\ raised = FALSE

Extract ==
    /\ version = "extract"
    /\ pc = "call"
    /\ raised' = extract_raises(text, keyword)
    /\ results' = IF extract_raises(text, keyword) THEN <<>>
                  ELSE extract_sequential_data(text, keyword)
    /\ pc' = "returned"
    /\ UNCHANGED <<version, df, i, structured_data, groups, pages_data, page_idx, text, keyword>>

NextExtract == Extract

SpecExtract == InitExtract /\ [][NextExtract]_vars

----------------------------------------------------------------------------
(* The normalizers: fix_ikar_auto.py, fix_double_characters.py,            *)
(* pdf_to_csv.py, pdf_extractor_advanced.py and the step-5 helpers of      *)
(* process_pdf_complete.py.  Their argument is a Python value: None or a   *)
(* str.                                                                    *)

PyNone == [type |-> "NoneType"]

PyStr(s) == [type |-> "str", val |-> s]

\* `not text`: None and the empty string are falsy
Falsy(v) == v.type = "NoneType" \/ v.val = <<>>

\* the vowel sign i (U+09BF)
IKAR == 2495

\* [ক-হ] : U+0995 .. U+09B9
IsConsonant(c) == c \in 2453..2489

\* [\/,\.;:\(\)]
IsIkarSeparator(c) == c \in {47, 44, 46, 59, 58, 40, 41}

\* re.sub(r'(^|\s|[\/,\.;:\(\)])ি([ক-হ])', r'\1\2ি', text) from position p on
RECURSIVE IkarSub1From(_, _)
IkarSub1From(t, p) ==
    IF p > Len(t) THEN <<>>
    ELSE IF p = 1 /\ Len(t) >= 2 /\ t[1] = IKAR /\ IsConsonant(t[2])
    THEN <<t[2], IKAR>> \o IkarSub1From(t, 3)
    ELSE IF /\ p + 2 <= Len(t)
            /\ (IsSpace(t[p]) \/ IsIkarSeparator(t[p]))
            /\ t[p + 1] = IKAR
            /\ IsConsonant(t[p + 2])
    THEN <<t[p], t[p + 2], IKAR>> \o IkarSub1From(t, p + 3)
    ELSE <<t[p]>> \o IkarSub1From(t, p + 1)

\* a slip in the second substitution: the misplaced sign dropped, not moved
RECURSIVE IkarSub2From_Drop(_, _)
IkarSub2From_Drop(t, p) ==
    IF p > Len(t) THEN <<>>
    ELSE IF /\ p + 1 <= Len(t)
            /\ t[p] = IKAR
            /\ IsConsonant(t[p + 1])
            /\ (p = 1 \/ ~IsConsonant(t[p - 1]))
    THEN <<t[p + 1]>> \o IkarSub2From_Drop(t, p + 2)
    ELSE <<t[p]>> \o IkarSub2From_Drop(t, p + 1)

\* re.sub(r'(?<![ক-হ])ি([ক-হ])', r'\1ি', text) from position p on; the
\* lookbehind reads the string the substitution was called with
RECURSIVE IkarSub2From(_, _)
IkarSub2From(t, p) ==
    IF p > Len(t) THEN <<>>
    ELSE IF /\ p + 1 <= Len(t)
            /\ t[p] = IKAR
            /\ IsConsonant(t[p + 1])
            /\ (p = 1 \/ ~IsConsonant(t[p - 1]))
    THEN <<t[p + 1], IKAR>> \o IkarSub2From(t, p + 2)
    ELSE <<t[p]>> \o IkarSub2From(t, p + 1)

IkarSub2(t) == IkarSub2From(t, 1)

fix_ikar_position(v) ==
    IF Falsy(v) THEN v ELSE PyStr(IkarSub2(IkarSub1From(v.val, 1)))

\* for old, new in fixes[lo..hi]: text = text.replace(old, new)
RECURSIVE ReplaceRange(_, _, _, _)
ReplaceRange(t, fixes, lo, hi) ==
    IF t = <<>> \/ lo > hi THEN t
    ELSE IF lo = hi THEN replace(t, fixes[lo][1], fixes[lo][2])
    ELSE LET mid == (lo + hi) \div 2
         IN  ReplaceRange(ReplaceRange(t, fixes, lo, mid), fixes, mid + 1, hi)

\* for old, new in fixes: text = text.replace(old, new)
ReplaceEach(t, fixes) == ReplaceRange(t, fixes, 1, Len(fixes))

double_chars == <<
    <<<<2478, 2478, 2507>>, <<2478, 2507>>>>,
    <<<<2489, 2489, 2507>>, <<2489, 2507>>>>,
    <<<<2480, 2480, 2507>>, <<2480, 2507>>>>,
    <<<<2455, 2455, 2507>>, <<2455, 2507>>>>,
    <<<<2453, 2453, 2507>>, <<2453, 2507>>>>,
    <<<<2478, 2478, 2496>>, <<2478, 2496>>>>,
    <<<<2478, 2478, 2507, 2435>>, <<2478, 2507, 2435>>>>,
    <<<<2478, 2478, 2507, 2459, 2494, 2435>>, <<2478, 2507, 2459, 2494, 2435>>>>,
    <<<<2478, 2478, 2507, 2488, 2494, 2435>>, <<2478, 2507, 2488, 2494, 2435>>>>,
    <<<<2478, 2478, 2507, 2488, 2509, 2468>>, <<2478, 2507, 2488, 2509, 2468>>>>,
    <<<<2478, 2478, 2507, 2468>>, <<2478, 2507, 2468>>>>,
    <<<<2478, 2478, 2507, 2460>>, <<2478, 2507, 2460>>>>,
    <<<<2478, 2478, 2507, 2482>>, <<2478, 2507, 2482>>>>,
    <<<<2489, 2489, 2507>>, <<2489, 2507>>>>,
    <<<<2480, 2480, 2507>>, <<2480, 2507>>>>,
    <<<<2455, 2455, 2507>>, <<2455, 2507>>>>,
    <<<<2453, 2453, 2507>>, <<2453, 2507>>>>
>>

bengali_consonants == <<2453, 2454, 2455, 2456, 2457, 2458, 2459, 2460, 2461, 2462, 2463, 2464, 2465, 2466, 2467, 2468, 2469, 2470, 2471, 2472, 2474, 2475, 2476, 2477, 2478, 2479, 2480, 2482, 2486, 2487, 2488, 2489>>

\* re.sub(f'({c}){c}(?![{c}])', r'\1', text) from position p on
RECURSIVE DoubleSubFrom(_, _, _)
DoubleSubFrom(t, c, p) ==
    IF p > Len(t) THEN <<>>
    ELSE IF /\ p + 1 <= Len(t)
            /\ t[p] = c
            /\ t[p + 1] = c
            /\ (p + 2 > Len(t) \/ t[p + 2] # c)
    THEN <<c>> \o DoubleSubFrom(t, c, p + 2)
    ELSE <<t[p]>> \o DoubleSubFrom(t, c, p + 1)

\* for consonant in cs[lo..hi]: text = re.sub(...)
RECURSIVE DoubleSubRange(_, _, _, _)
DoubleSubRange(t, cs, lo, hi) ==
    IF t = <<>> \/ lo > hi THEN t
    ELSE IF lo = hi THEN DoubleSubFrom(t, cs[lo], 1)
    ELSE LET mid == (lo + hi) \div 2
         IN  DoubleSubRange(DoubleSubRange(t, cs, lo, mid), cs, mid + 1, hi)

\* for consonant in bengali_consonants: text = re.sub(...)
DoubleSubEach(t, cs) == DoubleSubRange(t, cs, 1, Len(cs))

fix_double_characters(v) ==
    IF Falsy(v) THEN v
    ELSE PyStr(DoubleSubEach(ReplaceEach(v.val, double_chars), bengali_consonants))

specific_fixes == <<
    <<<<2477, 2494, 2463, 2494, 2480>>, <<2477, 2507, 2463, 2494, 2480>>>>,
    <<<<2453, 2494, 2465>>, <<2453, 2507, 2465>>>>,
    <<<<2480, 2494, 2465>>, <<2480, 2507, 2465>>>>,
    <<<<2478, 2494, 2489, 2494, 2478, 2509, 2478, 2470>>, <<2478, 2507, 2489, 2494, 2478, 2509, 2478, 2470>>>>,
    <<<<2478, 2494, 2488, 2494, 2503, 2470, 2509, 2470, 2453>>, <<2478, 2507, 2488, 2494, 2470, 2509, 2470, 2503, 2453>>>>,
    <<<<2478, 2494, 2488, 2494, 2478, 2509, 2478, 2510>>, <<2478, 2507, 2488, 2494, 2478, 2509, 2478, 2510>>>>,
    <<<<2478, 2494, 2488, 2494, 2478, 2509, 2478, 2468>>, <<2478, 2507, 2488, 2494, 2478, 2509, 2478, 2468>>>>,
    <<<<2478, 2494, 2488, 2495, 2482, 2478>>, <<2478, 2507, 2459, 2482, 2495, 2478>>>>,
    <<<<2478, 2494, 2489, 2494, 2435>>, <<2478, 2507, 2489, 2494, 2435>>>>,
    <<<<2478, 2494, 2488, 2494, 2435>>, <<2478, 2507, 2488, 2494, 2435>>>>,
    <<<<2478, 2494, 2459, 2494, 2435>>, <<2478, 2507, 2459, 2494, 2435>>>>,
    <<<<2478, 2494, 2435>>, <<2478, 2507, 2435>>>>,
    <<<<2476, 2455, 2478>>, <<2476, 2503, 2455, 2478>>>>,
    <<<<2474, 2486, 2494>>, <<2474, 2503, 2486, 2494>>>>,
    <<<<2453, 2472, 2509, 2470, 2509, 2480>>, <<2453, 2503, 2472, 2509, 2470, 2509, 2480>>>>,
    <<<<2488, 2527, 2470, 2494>>, <<2488, 2479, 2492, 2470, 2494>>>>,
    <<<<2488, 2527, 2470>>, <<2488, 2479, 2492, 2470>>>>,
    <<<<2454, 2494, 2503, 2470, 2460, 2494>>, <<2454, 2507, 2470, 2503, 2460, 2494>>>>,
    <<<<2460, 2494, 2503, 2476, 2470, 2494>>, <<2460, 2507, 2476, 2503, 2470, 2494>>>>,
    <<<<2472, 2451, 2527, 2494, 2460>>, <<2472, 2451, 2479, 2492, 2494, 2460>>>>,
    <<<<2455, 2494, 2482, 2494, 2478>>, <<2455, 2507, 2482, 2494, 2478>>>>,
    <<<<2475, 2480, 2503, 2470, 2508, 2488, 2496>>, <<2475, 2480, 2495, 2470, 2508, 2488, 2496>>>>,
    <<<<2486, 2454>>, <<2486, 2503, 2454>>>>,
    <<<<2480, 2460, 2451, 2527, 2494, 2472, 2494>>, <<2480, 2503, 2460, 2451, 2479, 2492, 2494, 2472, 2494>>>>,
    <<<<2480, 2460, 2494, 2441, 2482>>, <<2480, 2503, 2460, 2494, 2441, 2482>>>>,
    <<<<2489, 2494, 2503, 2488, 2472>>, <<2489, 2507, 2488, 2503, 2472>>>>,
    <<<<2453, 2494, 2527, 2494, 2463, 2494, 2480>>, <<2453, 2507, 2479, 2492, 2494, 2480, 2509, 2463, 2494, 2480>>>>,
    <<<<2453, 2494, 2527, 2494, 2463, 2494>>, <<2453, 2507, 2479, 2492, 2494, 2480, 2509, 2463, 2494, 2480>>>>,
    <<<<2453, 2494, 2527, 2494, 2463>>, <<2453, 2507, 2479, 2492, 2494, 2480, 2509, 2463, 2494, 2480>>>>,
    <<<<2455, 2494, 2482, 2488>>, <<2455, 2494, 2480, 2509, 2482, 2488>>>>,
    <<<<2463, 2458, 2494, 2480>>, <<2463, 2495, 2458, 2494, 2480>>>>
>>

\* U+FFFD, the replacement character
REPLACEMENT_CHAR == 65533

\* the characters of S removed (str.replace(c, '') for each c, re.sub(class, ''))
RemoveChars(t, S) == SelectSeq(t, LAMBDA c : c \notin S)

\* the table of literal pairs left out
_fix_bijoy_encoding_NoTable(t) ==
    IF t = <<>> THEN t ELSE RemoveChars(t, {REPLACEMENT_CHAR})

\* text.replace('', '') returns text; bijoy_fixes is empty
_fix_bijoy_encoding(t) ==
    IF t = <<>> THEN t
    ELSE RemoveChars(ReplaceEach(t, specific_fixes), {REPLACEMENT_CHAR})

\* re.sub(r'\s+', ' ', text) from position p on
RECURSIVE CollapseWsFrom(_, _)
CollapseWsFrom(t, p) ==
    IF p > Len(t) THEN <<>>
    ELSE IF IsSpace(t[p]) THEN <<32>> \o CollapseWsFrom(t, p + WsRun(t, p))
    ELSE <<t[p]>> \o CollapseWsFrom(t, p + 1)

\* [\x00-\x08\x0b\x0c\x0e-\x1f\x7f-\x9f]
ControlChars == (0..8) \cup {11, 12} \cup (14..31) \cup (127..159)

_clean_bengali_text(v) ==
    IF Falsy(v) THEN PyStr(<<>>)
    ELSE PyStr(strip(RemoveChars(_fix_bijoy_encoding(CollapseWsFrom(v.val, 1)),
                                 ControlChars)))

\* U+200B, U+200C, U+200D
ZeroWidthChars == {8203, 8204, 8205}

_clean_text(v) ==
    IF Falsy(v) THEN PyStr(<<>>)
    ELSE LET t1 == RemoveChars(v.val, ControlChars)
             t2 == replace(t1, <<13, 10>>, <<10>>)
             t3 == replace(t2, <<13>>, <<10>>)
             t4 == CollapseWsFrom(t3, 1)
         IN  PyStr(strip(RemoveChars(t4, ZeroWidthChars)))

\* bengali_text_utils.py: [।,;:!?]
Punctuation == {2404, 44, 59, 58, 33, 63}

\* re.sub(c+, c, text) from position p on: runs of the character c collapsed
RECURSIVE CollapseRunFrom(_, _, _)
CollapseRunFrom(t, c, p) ==
    IF p > Len(t) THEN <<>>
    ELSE IF t[p] = c /\ p < Len(t) /\ t[p + 1] = c THEN CollapseRunFrom(t, c, p + 1)
    ELSE <<t[p]>> \o CollapseRunFrom(t, c, p + 1)

\* re.sub(r'\s+([।,;:!?])', r'\1', text) from position p on
RECURSIVE SpacingSub1From(_, _)
SpacingSub1From(t, p) ==
    IF p > Len(t) THEN <<>>
    ELSE LET q == p + WsRun(t, p)
         IN  IF WsRun(t, p) >= 1 /\ q <= Len(t) /\ t[q] \in Punctuation
             THEN <<t[q]>> \o SpacingSub1From(t, q + 1)
             ELSE <<t[p]>> \o SpacingSub1From(t, p + 1)

\* re.sub(r'([।,;:!?])\s+', r'\1 ', text) from position p on
RECURSIVE SpacingSub2From(_, _)
SpacingSub2From(t, p) ==
    IF p > Len(t) THEN <<>>
    ELSE IF t[p] \in Punctuation /\ WsRun(t, p + 1) >= 1
         THEN <<t[p], 32>> \o SpacingSub2From(t, p + 1 + WsRun(t, p + 1))
         ELSE <<t[p]>> \o SpacingSub2From(t, p + 1)

_fix_spacing(t) ==
    strip(SpacingSub2From(SpacingSub1From(CollapseRunFrom(t, 32, 1), 1), 1))

\* the mapping table is empty; _fix_broken_words returns its argument
fix_bijoy_text(t) == IF t = <<>> THEN <<>> ELSE _fix_spacing(t)

clean_text(v) ==
    IF Falsy(v) THEN PyStr(<<>>)
    ELSE LET t1 == fix_bijoy_text(RemoveChars(v.val, ControlChars))
             t2 == replace(t1, <<13, 10>>, <<10>>)
             t3 == replace(t2, <<13>>, <<10>>)
             t4 == CollapseRunFrom(t3, 10, 1)
         IN  PyStr(strip(CollapseRunFrom(t4, 32, 1)))

\* process_pdf_complete.py, step 5: the nested helpers
step5_fixes == <<
    <<<<2478, 2478, 2507>>, <<2478, 2507>>>>,
    <<<<2489, 2489, 2507>>, <<2489, 2507>>>>,
    <<<<2480, 2480, 2507>>, <<2480, 2507>>>>,
    <<<<2455, 2455, 2507>>, <<2455, 2507>>>>,
    <<<<2453, 2453, 2507>>, <<2453, 2507>>>>,
    <<<<2478, 2478, 2496>>, <<2478, 2496>>>>,
    <<<<2478, 2478, 2507, 2435>>, <<2478, 2507, 2435>>>>,
    <<<<2478, 2478, 2507, 2459, 2494, 2435>>, <<2478, 2507, 2459, 2494, 2435>>>>,
    <<<<2478, 2478, 2507, 2488, 2494, 2435>>, <<2478, 2507, 2488, 2494, 2435>>>>,
    <<<<2478, 2478, 2507, 2488, 2509, 2468>>, <<2478, 2507, 2488, 2509, 2468>>>>,
    <<<<2478, 2478, 2507, 2468>>, <<2478, 2507, 2468>>>>,
    <<<<2478, 2478, 2507, 2460>>, <<2478, 2507, 2460>>>>,
    <<<<2478, 2478, 2507, 2482>>, <<2478, 2507, 2482>>>>
>>

step5_fix_ikar_position(v) ==
    IF Falsy(v) THEN v ELSE PyStr(IkarSub2(IkarSub1From(v.val, 1)))

step5_fix_double_characters(v) ==
    IF Falsy(v) THEN v ELSE PyStr(ReplaceEach(v.val, step5_fixes))

----------------------------------------------------------------------------
(* The normalizers alone, on bounded arguments *)

MaxNormLen == 4

\* the strings over alphabet A of at most n characters
Strings(A, n) == UNION {[1..k -> A] : k \in 0..n}

\* the words of the corruption corpus
W_NIMMI == <<2495, 2472, 2478, 2509, 2478, 2496>>
W_MOHAMMAD == <<2478, 2478, 2507, 2489, 2494, 2478, 2509, 2478, 2470>>
W_KO == <<2453, 2453, 2507>>
W_VATAR == <<2477, 2494, 2463, 2494, 2480>>
CorpusWords == {W_NIMMI, W_MOHAMMAD, W_KO, W_VATAR}

\* two letters with, between them, a space, a character a cleaner removes
\* (NUL, U+FFFD, U+200B) and a space
SpacedTexts == {<<2453, 32, c, 32, 2453>> : c \in {0, REPLACEMENT_CHAR, 8203}}

\* the characters each normalizer reacts to, and one it does not
NormAlphabet(fn) ==
    CASE fn = "fix_ikar_position" -> {IKAR, 2453, 2454, 2494, 32}
      [] fn = "fix_double_characters" -> {2453, 2454, 2478, 2507}
      [] fn = "_clean_bengali_text" -> {2453, 2494, 2465, REPLACEMENT_CHAR, 32, 0}
      [] fn = "_clean_text" -> {2453, 32, 8203, 13, 10, 0}
      [] fn = "_fix_bijoy_encoding" -> {2453, 2494, 2465, REPLACEMENT_CHAR}
      [] fn = "clean_text" -> {2453, 32, 44, 13, 10, 0}

Normalizers ==
    {"fix_ikar_position", "fix_double_characters", "_clean_bengali_text", "_clean_text"}

NormArguments(fn) ==
    {PyNone} \cup {PyStr(t) : t \in Strings(NormAlphabet(fn), MaxNormLen) \cup CorpusWords \cup SpacedTexts}

\* the normalizer named fn applied to v
Normalize(fn, v) ==
    CASE fn = "fix_ikar_position" -> fix_ikar_position(v)
      [] fn = "fix_double_characters" -> fix_double_characters(v)
      [] fn = "_clean_bengali_text" -> _clean_bengali_text(v)
      [] fn = "_clean_text" -> _clean_text(v)

InitNormalize ==
    /\ version \in Normalizers \cup {"_fix_bijoy_encoding", "clean_text"}
    /\ df = <<>>
    /\ i = 1
    /\ structured_data = <<>>
    /\ groups = <<>>
    /\ pages_data = <<>>
    /\ page_idx = 1
    /\ pc = "call"
    /\ text \in NormArguments(version)
    /\ keyword = <<>>
    /\ results = PyNone
    /\ raised = FALSE

FixIkarPosition ==
    /\ version = "fix_ikar_position"
    /\ pc = "call"
    /\ results' = fix_ikar_position(text)
    /\ pc' = "returned"
    /\ UNCHANGED <<version, df, i, structured_data, groups, pages_data, page_idx,
                   text, keyword, raised>>

FixDoubleCharacters ==
    /\ version = "fix_double_characters"
    /\ pc = "call"
    /\ results' = fix_double_characters(text)
    /\ pc' = "returned"
    /\ UNCHANGED <<version, df, i, structured_data, groups, pages_data, page_idx,
                   text, keyword, raised>>

CleanBengaliText ==
    /\ version = "_clean_bengali_text"
    /\ pc = "call"
    /\ results' = _clean_bengali_text(text)
    /\ pc' = "returned"
    /\ UNCHANGED <<version, df, i, structured_data, groups, pages_data, page_idx,
                   text, keyword, raised>>

CleanText ==
    /\ version = "_clean_text"
    /\ pc = "call"
    /\ results' = _clean_text(text)
    /\ pc' = "returned"
    /\ UNCHANGED <<version, df, i, structured_data, groups, pages_data, page_idx,
                   text, keyword, raised>>

\* the correction stage of _clean_bengali_text, called alone
FixBijoyEncoding ==
    /\ version = "_fix_bijoy_encoding"
    /\ pc = "call"
    /\ results' = IF Falsy(text) THEN text ELSE PyStr(_fix_bijoy_encoding(text.val))
    /\ pc' = "returned"
    /\ UNCHANGED <<version, df, i, structured_data, groups, pages_data, page_idx,
                   text, keyword, raised>>

\* bengali_text_utils.py: BengaliTextProcessor.clean_text
CleanTextUtils ==
    /\ version = "clean_text"
    /\ pc = "call"
    /\ results' = clean_text(text)
    /\ pc' = "returned"
    /\ UNCHANGED <<version, df, i, structured_data, groups, pages_data, page_idx,
                   text, keyword, raised>>

NextNormalize ==
    \/ FixIkarPosition
    \/ FixDoubleCharacters
    \/ CleanBengaliText
    \/ CleanText
    \/ FixBijoyEncoding
    \/ CleanTextUtils

SpecNormalize == InitNormalize /\ [][NextNormalize]_vars

----------------------------------------------------------------------------
(* The date/profession extraction alone: test_dob_extraction.py, v1's      *)
(* extract_dob_profession and the date branch of the v2 lookahead, on      *)
(* bounded date lines                                                      *)

MaxDobGroups == 3

\* test_dob_extraction.py: test_text
test_text == <<2460, 2472, 2509, 2478, 2468, 2494, 2495, 2480, 2454, 58, 32, 2535, 2536, 47, 2535, 2536, 47, 2535, 2543, 2541, 2543, 32, 2474, 2503, 2486, 2494, 58, 32, 2455, 2499, 2495, 2489, 2472, 2496, 32, 2460, 2472, 2509, 2478, 2468, 2494, 2495, 2480, 2454, 58, 32, 2537, 2534, 47, 2534, 2543, 47, 2535, 2543, 2541, 2539, 32, 2474, 2503, 2486, 2494, 58, 32, 2455, 2499, 2495, 2489, 2472, 2496, 32, 2460, 2472, 2509, 2478, 2468, 2494, 2495, 2480, 2454, 58, 32, 2535, 2534, 47, 2534, 2538, 47, 2535, 2543, 2541, 2537, 32, 2474, 2503, 2486, 2494, 58, 32, 2488, 2480, 2453, 2494, 2480, 2496, 32, 2458, 2494, 2453, 2497, 2480, 2496>>

DobDates == <<<<2535, 2536, 47, 2535, 2536, 47, 2535, 2543, 2541, 2543>>, <<2537, 2534, 47, 2534, 2543, 47, 2535, 2543, 2541, 2539>>, <<2535, 2534, 47, 2534, 2538, 47, 2535, 2543, 2541, 2537>>>>

\* the two professions of test_text, and one free of the letters of the
\* profession pattern's class ("obosor")
P_GRIHINI == <<2455, 2499, 2495, 2489, 2472, 2496>>
P_SORKARI_CHAKURI == <<2488, 2480, 2453, 2494, 2480, 2496, 32, 2458, 2494, 2453, 2497, 2480, 2496>>
P_OBOSOR == <<2437, 2476, 2488, 2480>>
DobProfessionWords == {P_GRIHINI, P_SORKARI_CHAKURI, P_OBOSOR}

\* '<marker> <date j> pesha: <profession j>' for each j, joined by spaces
DobLine(marker, profs) ==
    JoinSpace([j \in 1..Len(profs) |->
        marker \o <<32>> \o DobDates[((j - 1) % Len(DobDates)) + 1] \o <<32>>
               \o KW_PESHA \o <<32>> \o profs[j]])

\* a span with no date after its marker and digits after its profession
L_DOB_NODATE == KW_DOB \o <<32>> \o KW_PESHA \o <<32>> \o P_OBOSOR \o <<32, 2535, 2536>>

DobLines ==
    {DobLine(marker, profs) :
        marker \in {KW_DOB, KW_DOB_ALIAS},
        profs \in UNION {[1..n -> DobProfessionWords] : n \in 1..MaxDobGroups}}
    \cup {L_DOB_NODATE}

\* test_dob_extraction.py: normalized, then re.findall(pattern, normalized)
test_dob_extraction(t) == DobProfFindall(replace(t, KW_DOB_ALIAS, KW_DOB), 1)

\* the date branch of the lookahead, for one window line
v2_dob_branch(next_text) ==
    IF TaggedDob(next_text) THEN DobProfessions(next_text) ELSE <<>>

InitDob ==
    /\ version \in {"test_dob_extraction", "extract_dob_profession", "v2_dob_branch"}
    /\ df = <<>>
    /\ i = 1
    /\ structured_data = <<>>
    /\ groups = <<>>
    /\ pages_data = <<>>
    /\ page_idx = 1
    /\ pc = "call"
    /\ text \in DobLines
    /\ keyword = <<>>
    /\ results = <<>>
    /\ raised = FALSE

TestDobExtraction ==
    /\ version = "test_dob_extraction"
    /\ pc = "call"
    /\ results' = test_dob_extraction(text)
    /\ pc' = "returned"
    /\ UNCHANGED <<version, df, i, structured_data, groups, pages_data, page_idx,
                   text, keyword, raised>>

ExtractDobProfession ==
    /\ version = "extract_dob_profession"
    /\ pc = "call"
    /\ results' = extract_dob_profession(text)
    /\ pc' = "returned"
    /\ UNCHANGED <<version, df, i, structured_data, groups, pages_data, page_idx,
                   text, keyword, raised>>

V2DobBranch ==
    /\ version = "v2_dob_branch"
    /\ pc = "call"
    /\ results' = v2_dob_branch(text)
    /\ pc' = "returned"
    /\ UNCHANGED <<version, df, i, structured_data, groups, pages_data, page_idx,
                   text, keyword, raised>>

NextDob == TestDobExtraction \/ ExtractDobProfession \/ V2DobBranch

SpecDob == InitDob /\ [][NextDob]_vars

----------------------------------------------------------------------------
(* The v1 field extractors alone, on bounded marked lines *)

MaxMarked == 3

\* the two names of the docstring of extract_fathers, a name free of the
\* letters of the value pattern's class ("ali") and one with such letters
\* ("rahim")
N_ABU_TAHER == <<2438, 2476, 2497, 32, 2468, 2494, 2489, 2503, 2480, 32, 2478, 2507, 2435, 32, 2488, 2494, 2482, 2494, 2441, 2470, 2509, 2470, 2496, 2472>>
N_ABDUR_RAZZAK == <<2438, 2476, 2509, 2470, 2497, 2480, 32, 2480, 2494, 2460, 2509, 2460, 2494, 2453, 32, 2478, 2460, 2497, 2478, 2470, 2494, 2480>>
N_ALI == <<2438, 2482, 2496>>
N_RAHIM == <<2480, 2489, 2495, 2478>>
ValueWords == {N_ABU_TAHER, N_ABDUR_RAZZAK, N_ALI, N_RAHIM}

\* '<marker> <value 1> <marker> <value 2> ...'
MarkedLine(marker, vals) ==
    JoinSpace([j \in 1..Len(vals) |-> marker \o <<32>> \o vals[j]])

V1Extractors == {"extract_fathers", "extract_mothers", "extract_addresses"}

\* the marker each extractor splits its line by
MarkerOf(fn) ==
    CASE fn = "extract_fathers" -> KW_PITA
      [] fn = "extract_mothers" -> KW_MATA
      [] fn = "extract_addresses" -> KW_THIKANA

MarkedLines(fn) ==
    {MarkedLine(MarkerOf(fn), vals) :
        vals \in UNION {[1..n -> ValueWords] : n \in 1..MaxMarked}}

InitFields ==
    /\ version \in V1Extractors
    /\ df = <<>>
    /\ i = 1
    /\ structured_data = <<>>
    /\ groups = <<>>
    /\ pages_data = <<>>
    /\ page_idx = 1
    /\ pc = "call"
    /\ text \in MarkedLines(version)
    /\ keyword = MarkerOf(version)
    /\ results = <<>>
    /\ raised = FALSE

ExtractFathers ==
    /\ version = "extract_fathers"
    /\ pc = "call"
    /\ results' = extract_fathers(text)
    /\ pc' = "returned"
    /\ UNCHANGED <<version, df, i, structured_data, groups, pages_data, page_idx,
                   text, keyword, raised>>

ExtractMothers ==
    /\ version = "extract_mothers"
    /\ pc = "call"
    /\ results' = extract_mothers(text)
    /\ pc' = "returned"
    /\ UNCHANGED <<version, df, i, structured_data, groups, pages_data, page_idx,
                   text, keyword, raised>>

ExtractAddresses ==
    /\ version = "extract_addresses"
    /\ pc = "call"
    /\ results' = extract_addresses(text)
    /\ pc' = "returned"
    /\ UNCHANGED <<version, df, i, structured_data, groups, pages_data, page_idx,
                   text, keyword, raised>>

NextFields == ExtractFathers \/ ExtractMothers \/ ExtractAddresses

SpecFields == InitFields /\ [][NextFields]_vars

----------------------------------------------------------------------------
(* The v2 segmenter on lines that use the corrupted marker spellings *)

MaxAliasRows == 3

L_FA2 == <<2495, 2474, 2468, 2494, 58, 32, 2438, 2482, 2496, 32, 2495, 2474, 2468, 2494, 58, 32, 2451, 2478, 2480>>       \* alias, alias
L_FMIX == <<2474, 2495, 2468, 2494, 58, 32, 2438, 2482, 2496, 32, 2495, 2474, 2468, 2494, 58, 32, 2451, 2478, 2480>>      \* canonical, alias
L_ADA == <<2495, 2464, 2453, 2494, 2472, 2494, 58, 32, 2466, 2494, 2453, 2494>>      \* address, alias

AliasCorpus == {L_A1, L_F2, L_FA2, L_FMIX, L_ADA, L_HDR}

InitAlias == version = "v2" /\ InitSegmenter(AliasCorpus, {1}, MaxAliasRows)

SpecAlias == InitAlias /\ [][NextV2]_vars

----------------------------------------------------------------------------
(* process_pdf_complete.py: main, one action per step of the pipeline.
   text holds the lines of the PDF as the extraction library reads them,
   keyword the extraction library in use, df the rows of the CSV file,
   structured_data the rows of the structured (then final) CSV, i the number
   of people step 4 reports, results the status lines printed so far,
   pages_data the files the run has named (csv_file, structured_file,
   final_file; "" while unassigned). *)

MaxPipelineRows == 2

L_AI == <<2535, 46, 32, 2495, 2453, 2480>>                       \* name line, misplaced i-kar

L_BLANK == <<32>>

L_REPL == <<REPLACEMENT_CHAR>>

RawCorpus == {L_A1, L_AI, L_F2, L_HDR, L_BLANK, L_REPL}

Extractors == {"PyMuPDF", "pdfplumber"}

\* the cleaning method of each extraction library
CleanLine(lib, line) ==
    IF lib = "PyMuPDF" THEN _clean_text(PyStr(line)).val
    ELSE _clean_bengali_text(PyStr(line)).val

\* all_text_lines: the cleaned lines that are not blank, with their page
\* (PyMuPDF: every block is one line of one span)
RECURSIVE ExtractLines(_, _)
ExtractLines(lib, raw) ==
    IF raw = <<>> THEN <<>>
    ELSE LET cleaned == CleanLine(lib, Head(raw).Text)
             row == [Page |-> Head(raw).Page,
                     Text |-> IF lib = "PyMuPDF" THEN strip(cleaned) ELSE cleaned]
         IN  (IF strip(cleaned) # <<>> THEN <<row>> ELSE <<>>)
                 \o ExtractLines(lib, Tail(raw))

\* step 3: fix_replacement_characters
fix_replacement_characters(t) ==
    IF t = <<>> THEN t ELSE RemoveChars(t, {REPLACEMENT_CHAR})

\* str() of the cell pandas reads back from an empty CSV field
NAN_TEXT == <<110, 97, 110>>

\* a cell written by to_csv and read by read_csv
CsvCell(t) == IF t = <<>> THEN NAN_TEXT ELSE t

\* the rows of the CSV after step 3: rewritten iff fixed_count > 0
FixedRows(d) ==
    [r \in 1..Len(d) |->
        [Page |-> d[r].Page, Text |-> CsvCell(fix_replacement_characters(d[r].Text))]]

\* step 5 on one cell of a text column; an empty cell is read back as NaN
\* and returned as it is
Step5Cell(t) ==
    IF t = <<>> THEN t
    ELSE step5_fix_double_characters(step5_fix_ikar_position(PyStr(t))).val

Step5Record(rec) ==
    [Name |-> Step5Cell(rec.Name),
     NID |-> Step5Cell(rec.NID),
     Father |-> Step5Cell(rec.Father),
     Mother |-> Step5Cell(rec.Mother),
     DOB |-> Step5Cell(rec.DOB),
     Profession |-> Step5Cell(rec.Profession),
     Address |-> Step5Cell(rec.Address),
     Page |-> rec.Page]

\* no file named yet
NoFiles == [csv_file |-> "", structured_file |-> "", final_file |-> ""]

InitPipeline ==
    /\ version = "pipeline"
    /\ text \in Streams(RawCorpus, {1}, MaxPipelineRows)
    /\ keyword \in Extractors
    /\ df = <<>>
    /\ i = 0
    /\ structured_data = <<>>
    /\ groups = <<>>
    /\ pages_data = NoFiles
    /\ page_idx = 1
    /\ pc = "step1"
    /\ results = <<>>
    /\ raised = FALSE

\* Step 1: the PDF named on the command line, or the first one of the directory
Step1 ==
    /\ version = "pipeline"
    /\ pc = "step1"
    /\ \E argv \in BOOLEAN, found \in BOOLEAN :
          IF ~found
          THEN /\ results' = Append(results, IF argv THEN "[ERROR] PDF file not found"
                                              ELSE "[ERROR] No PDF files found in current directory")
               /\ pc' = "exit"
          ELSE /\ results' = Append(results, IF argv THEN "Step 1: Using PDF file"
                                              ELSE "[OK] Found PDF")
               /\ pc' = "step2"
    /\ UNCHANGED <<version, df, i, structured_data, groups, pages_data, page_idx,
                   text, keyword, raised>>

\* Step 2: the PDF converted to the raw CSV
Step2 ==
    /\ version = "pipeline"
    /\ pc = "step2"
    /\ \E fails \in BOOLEAN :
          IF fails
          THEN /\ results' = Append(results, "[ERROR] Error converting PDF")
               /\ pc' = "exit"
               /\ UNCHANGED <<df, pages_data>>
          ELSE LET all_text_lines == ExtractLines(keyword, text)
               IN  IF all_text_lines # <<>>
                   THEN /\ df' = all_text_lines
                        /\ pages_data' = [pages_data EXCEPT !.csv_file = "pdf.csv"]
                        /\ results' = Append(results, "[OK] CSV created")
                        /\ pc' = "step3"
                   ELSE /\ df' = df
                        /\ pages_data' = [pages_data EXCEPT !.csv_file = "pdf.csv"]
                        /\ results' = Append(results, "[ERROR] No text extracted from PDF")
                        /\ pc' = "exit"
    /\ UNCHANGED <<version, i, structured_data, groups, page_idx, text, keyword, raised>>

\* a slip in step 3: its failure ends the run
Step3_Fatal ==
    /\ version = "pipeline"
    /\ pc = "step3"
    /\ \E fails \in BOOLEAN :
          IF fails
          THEN /\ results' = Append(results, "[WARNING] Could not fix replacement characters")
               /\ df' = df
               /\ pc' = "exit"
          ELSE LET fixed_count ==
                       Cardinality({r \in 1..Len(df) : Contains(df[r].Text, <<REPLACEMENT_CHAR>>)})
               IN  /\ pc' = "step4"
                   /\ IF fixed_count > 0
                      THEN /\ df' = FixedRows(df)
                           /\ results' = Append(results, "[OK] Fixed replacement characters")
                      ELSE /\ df' = df
                           /\ results' = Append(results, "[OK] No replacement characters found")
    /\ UNCHANGED <<version, i, structured_data, groups, pages_data, page_idx,
                   text, keyword, raised>>

\* Step 3: replacement characters removed from the raw CSV
Step3 ==
    /\ version = "pipeline"
    /\ pc = "step3"
    /\ \E fails \in BOOLEAN :
          IF fails
          THEN /\ results' = Append(results, "[WARNING] Could not fix replacement characters")
               /\ df' = df
          ELSE LET fixed_count ==
                       Cardinality({r \in 1..Len(df) : Contains(df[r].Text, <<REPLACEMENT_CHAR>>)})
               IN  IF fixed_count > 0
                   THEN /\ df' = FixedRows(df)
                        /\ results' = Append(results, "[OK] Fixed replacement characters")
                   ELSE /\ df' = df
                        /\ results' = Append(results, "[OK] No replacement characters found")
    /\ pc' = "step4"
    /\ UNCHANGED <<version, i, structured_data, groups, pages_data, page_idx,
                   text, keyword, raised>>

\* Step 4: structure_voter_data of structure_voter_data_v2.py on the raw CSV
Step4 ==
    /\ version = "pipeline"
    /\ pc = "step4"
    /\ \E fails \in BOOLEAN :
          IF fails
          THEN /\ results' = Append(results, "[ERROR] Error structuring data")
               /\ pc' = "exit"
               /\ UNCHANGED <<structured_data, i, pages_data>>
          ELSE LET structured_df == structure_voter_data_v2(df)
               IN  /\ structured_data' = structured_df
                   /\ i' = Len(structured_df)
                   /\ pages_data' = [pages_data EXCEPT !.structured_file = "pdf_structured.csv"]
                   /\ results' = Append(results, "[OK] Structured data")
                   /\ pc' = "step5"
    /\ UNCHANGED <<version, df, groups, page_idx, text, keyword, raised>>

\* Step 5: the i-kar and doubled-character fixes on the structured CSV
Step5 ==
    /\ version = "pipeline"
    /\ pc = "step5"
    /\ \E fails \in BOOLEAN :
          IF fails
          THEN /\ results' = Append(results, "[WARNING] Could not fix encoding issues")
               /\ structured_data' = structured_data
               /\ pages_data' = [pages_data EXCEPT !.final_file = pages_data.structured_file]
          ELSE /\ structured_data' =
                      [k \in 1..Len(structured_data) |-> Step5Record(structured_data[k])]
               /\ pages_data' = [pages_data EXCEPT !.final_file = "pdf_structured_final.csv"]
               /\ results' = Append(results, "[OK] Final file")
    /\ pc' = "summary"
    /\ UNCHANGED <<version, df, i, groups, page_idx, text, keyword, raised>>

\* Summary: the closing banner and the list of generated files
Summary ==
    /\ version = "pipeline"
    /\ pc = "summary"
    /\ results' = Append(results, "Processing Complete!")
    /\ pc' = "exit"
    /\ UNCHANGED <<version, df, i, structured_data, groups, pages_data, page_idx,
                   text, keyword, raised>>

NextPipeline == Step1 \/ Step2 \/ Step3 \/ Step4 \/ Step5 \/ Summary

SpecPipeline == InitPipeline /\ [][NextPipeline]_vars

----------------------------------------------------------------------------
(* The name extraction alone: v1's extract_names and the name branch of the
   v2 loop, on bounded anchor lines *)

MaxNames == 3

\* a name of two words ("shah naz") and a name that holds a digit ("ali 2")
N_SHAH_NAZ == <<2486, 2494, 2489, 2509, 32, 2472, 2494, 2460>>
N_ALI_2 == <<2438, 2482, 2496, 32, 2536>>
NameTexts == {N_ALI, N_RAHIM, N_SHAH_NAZ, N_ALI_2}

\* '<numeral j>. <text j>' for each j, joined by spaces
NameLine(vals) ==
    JoinSpace([j \in 1..Len(vals) |-> <<2534 + j, 46, 32>> \o vals[j]])

NameLines == {NameLine(vals) : vals \in UNION {[1..n -> NameTexts] : n \in 1..MaxNames}}

NameExtractors == {"extract_names", "v2_name_branch"}

\* the name branch of the v2 loop, for one row text
v2_name_branch(t) == IF IsNameLine(t) THEN NamesV2(t) ELSE <<>>

InitNames ==
    /\ version \in NameExtractors
    /\ df = <<>>
    /\ i = 1
    /\ structured_data = <<>>
    /\ groups = <<>>
    /\ pages_data = <<>>
    /\ page_idx = 1
    /\ pc = "call"
    /\ text \in NameLines
    /\ keyword = <<>>
    /\ results = <<>>
    /\ raised = FALSE

ExtractNames ==
    /\ version = "extract_names"
    /\ pc = "call"
    /\ results' = extract_names(text)
    /\ pc' = "returned"
    /\ UNCHANGED <<version, df, i, structured_data, groups, pages_data, page_idx,
                   text, keyword, raised>>

V2NameBranch ==
    /\ version = "v2_name_branch"
    /\ pc = "call"
    /\ results' = v2_name_branch(strip(text))
    /\ pc' = "returned"
    /\ UNCHANGED <<version, df, i, structured_data, groups, pages_data, page_idx,
                   text, keyword, raised>>

NextNames == ExtractNames \/ V2NameBranch

SpecNames == InitNames /\ [][NextNames]_vars

----------------------------------------------------------------------------
(* Properties of the segmenters and of the extractor *)

\* the categories a group collects besides the names
Categories == {"NID", "Father", "Mother", "DOB", "Address"}

\* the list a group holds for a category
ListOf(g, c) ==
    CASE c = "NID" -> g.lists.voter_ids
      [] c = "Father" -> g.lists.fathers
      [] c = "Mother" -> g.lists.mothers
      [] c = "DOB" -> g.lists.dob_professions
      [] c = "Address" -> g.lists.addresses

\* the row a group's values of a category were assigned from (0: none)
SrcOf(g, c) ==
    CASE c = "NID" -> g.lists.src.NID
      [] c = "Father" -> g.lists.src.Father
      [] c = "Mother" -> g.lists.src.Mother
      [] c = "DOB" -> g.lists.src.DOB
      [] c = "Address" -> g.lists.src.Address

\* a line is tagged with a category when it holds the category's marker
\* keyword or one of its aliases
Tagged(c, t) ==
    CASE c = "NID" -> Contains(t, KW_VOTER)
      [] c = "Father" -> Contains(t, KW_PITA) \/ Contains(t, KW_PITA_ALIAS)
      [] c = "Mother" -> Contains(t, KW_MATA)
      [] c = "DOB" -> TaggedDob(t)
      [] c = "Address" -> Contains(t, KW_THIKANA) \/ Contains(t, KW_THIKANA_ALIAS)

\* what the segmenter extracts from a line for a category
ValuesOf(c, t) ==
    CASE c = "NID" -> extract_sequential_data(t, KW_VOTER)
      [] c = "Father" -> FathersOf(t)
      [] c = "Mother" -> extract_sequential_data(t, KW_MATA)
      [] c = "DOB" -> DobProfessions(t)
      [] c = "Address" -> AddressesOf(t)

\* a group has values of a category, taken from row SrcOf
Supplied(g, c) == SrcOf(g, c) # 0 /\ ListOf(g, c) # <<>>

\* the rows of the lookahead window of the anchor at row a
WindowRows(a) == {r \in (a + 1)..(a + LookaheadDepth) : r <= Len(df)}

\* C1: every emitted record has a non-empty Name.
C1_NameNonEmpty ==
    \A k \in 1..Len(structured_data) : structured_data[k].Name # <<>>

\* C2: the window of an anchor ends at the first later anchor line: no
\* anchor line lies between an anchor and a row that supplied values to its
\* group (the supplying row included), and no anchor line is passed over
\* between two groups.
C2_WindowClosesAtNextAnchor ==
    /\ \A k \in 1..Len(groups) : \A c \in Categories :
          Supplied(groups[k], c) =>
              \A r \in (groups[k].anchor + 1)..SrcOf(groups[k], c) :
                  ~IsNameLine(RowText(df, r))
    /\ \A k \in 1..(Len(groups) - 1) :
          \A r \in (groups[k].anchor + 1)..(groups[k + 1].anchor - 1) :
              IsNameLine(RowText(df, r)) => IsHeaderV2(RowText(df, r))

\* the rows of d that lie on page p, in order
RowsOfPage(d, p) == SelectSeq(d, LAMBDA row : row.Page = p)

\* C3: every value of a record comes from a row of the anchor's page, and
\* segmenting each page alone and concatenating gives the same records as
\* segmenting the whole stream.
C3_PageIsolation ==
    /\ \A k \in 1..Len(groups) : \A c \in Categories :
          Supplied(groups[k], c) =>
              df[SrcOf(groups[k], c)].Page = df[groups[k].anchor].Page
    /\ pc = "done" =>
          structured_data =
              structure_voter_data_v2(RowsOfPage(df, 1)) \o structure_voter_data_v2(RowsOfPage(df, 2))

\* the narrowest reading of "tagged": the line passes the test under which
\* the loop examines it for the category
Examined(c, t) ==
    CASE c = "NID" -> TaggedVoter(t)
      [] c = "Father" -> TaggedFather(t)
      [] c = "Mother" -> TaggedMother(t)
      [] c = "DOB" -> TaggedDob(t)
      [] c = "Address" -> TaggedAddress(t)

\* C4: the values a group holds for a category are those extracted from the
\* first window line tagged with the category, whatever that line yields
\* (an empty list included); no later line supplies or replaces them.
C4_FirstTaggedLineWins ==
    \A k \in 1..Len(groups) : \A c \in Categories :
        LET tagged == {r \in WindowRows(groups[k].anchor) : Examined(c, RowText(df, r))}
        IN  ListOf(groups[k], c) =
                IF tagged = {} THEN <<>> ELSE ValuesOf(c, RowText(df, Min(tagged)))

\* element k of a list, the empty string past its end
Positional(lst, k) == IF k <= Len(lst) THEN lst[k] ELSE <<>>

\* C5: a group emits N records, N the greatest length among the names and
\* the captured lists; record k holds element k of each list, and the empty
\* string where the list has fewer than k elements.
C5_EmitCountAndDefault ==
    \A n \in 1..Len(groups) :
        LET g == groups[n]
            lens == {Len(g.names)} \cup {Len(ListOf(g, c)) : c \in Categories}
        IN  /\ g.count \in lens
            /\ \A l \in lens : l <= g.count
            /\ g.first + g.count - 1 <= Len(structured_data)
            /\ \A k \in 1..g.count :
                  LET rec == structured_data[g.first + k - 1]
                      pair == Positional(g.lists.dob_professions, k)
                  IN  /\ rec.Name = Positional(g.names, k)
                      /\ rec.NID = Positional(g.lists.voter_ids, k)
                      /\ rec.Father = Positional(g.lists.fathers, k)
                      /\ rec.Mother = Positional(g.lists.mothers, k)
                      /\ rec.Address = Positional(g.lists.addresses, k)
                      /\ rec.DOB = (IF pair = <<>> THEN <<>> ELSE pair.dob)
                      /\ rec.Profession = (IF pair = <<>> THEN <<>> ELSE pair.profession)

\* a group with 2 names and 1 mother: the second record has an empty Mother
C5_Witness ==
    \E n \in 1..Len(groups) :
        /\ Len(groups[n].names) = 2
        /\ Len(groups[n].lists.mothers) = 1
        /\ groups[n].count = 2
        /\ structured_data[groups[n].first].Mother # <<>>
        /\ structured_data[groups[n].first + 1].Name # <<>>
        /\ structured_data[groups[n].first + 1].Mother = <<>>

\* C6: a page without an anchor line has no record: every record's page
\* holds a line that starts with numerals, a period and whitespace.
C6_NoAnchorNoRecord ==
    \A k \in 1..Len(structured_data) :
        \E r \in 1..Len(df) :
            /\ df[r].Page = structured_data[k].Page
            /\ IsNameLine(RowText(df, r))

\* a line that matches the boilerplate list, or carries no category at all
IsNoise(t) ==
    \/ IsHeaderV2(t)
    \/ ~IsNameLine(t) /\ \A c \in Categories : ~Tagged(c, t)

\* d without its row r
RemoveAt(d, r) == SubSeq(d, 1, r - 1) \o SubSeq(d, r + 1, Len(d))

\* C7: removing a noise line from the stream leaves the emitted records
\* unchanged.
C7_NoiseTransparent ==
    pc = "done" =>
        \A r \in 1..Len(df) :
            IsNoise(RowText(df, r)) =>
                structure_voter_data_v2(RemoveAt(df, r)) = structured_data

\* the stream of the scenario: an anchor line with 2 names, then, inside the
\* window, one line with 2 IDs and one line with 2 fathers (in either order,
\* boilerplate lines allowed between them) and no other field line
Scenario8 ==
    /\ Len(df) >= 3
    /\ Len(df) <= 1 + LookaheadDepth
    /\ df[1].Text = L_A2
    /\ \A r \in 2..Len(df) : df[r].Text \in {L_ID2, L_F2, L_HDR}
    /\ Cardinality({r \in 2..Len(df) : df[r].Text = L_ID2}) = 1
    /\ Cardinality({r \in 2..Len(df) : df[r].Text = L_F2}) = 1

\* the record of the scenario with the given name, ID and father
Record8(name, nid, father) ==
    [Name |-> name, NID |-> nid, Father |-> father, Mother |-> <<>>, DOB |-> <<>>,
     Profession |-> <<>>, Address |-> <<>>, Page |-> df[1].Page]

\* C8: in the scenario exactly 2 records are emitted, record k with the k-th
\* name, ID and father, the other fields empty.
C8_SegmentationScenario ==
    (pc = "done" /\ Scenario8) =>
        structured_data =
            << Record8(<<2480, 2489, 2495, 2478>>, <<2535, 2536>>, <<2438, 2482, 2496>>),
               Record8(<<2453, 2480, 2495, 2478>>, <<2537, 2538>>, <<2451, 2478, 2480>>) >>

C8_Witness == pc = "done" /\ Scenario8 /\ Len(structured_data) = 2

\* the first position >= q where a marker keyword of any category occurs,
\* Len(t) + 1 when none does
NextMarker(t, q) ==
    Min({p \in q..(Len(t) + 1) :
            p = Len(t) + 1 \/ \E m \in MarkerKeywords : StartsWithAt(t, p, m)})

\* C9: every returned value is the trimmed text from just after an
\* occurrence of the keyword up to the next marker keyword or the end of
\* the line, and holds no marker keyword.
C9_ValueBoundary ==
    pc = "returned" =>
        \A k \in 1..Len(results) :
            /\ \E p \in 1..Len(text) :
                  /\ StartsWithAt(text, p, keyword)
                  /\ results[k] = strip(SubSeq(text, p + Len(keyword),
                                               NextMarker(text, p + Len(keyword)) - 1))
            /\ \A m \in MarkerKeywords : ~Contains(results[k], m)

\* C10: the extractor returns a list without raising, and the empty list
\* when the keyword does not occur in the text.
C10_ExtractorTotal ==
    pc = "returned" =>
        /\ ~raised
        /\ DOMAIN results = 1..Len(results)
        /\ ~Contains(text, keyword) => results = <<>>

\* a call on a text with content that does not hold the keyword
C10_Witness ==
    /\ pc = "returned"
    /\ strip(text) # <<>>
    /\ ~Contains(text, keyword)
    /\ results = <<>>

\* the three pairs of test_text, with the professions as written in the line
ScenarioPairs == <<
    [dob |-> DobDates[1], profession |-> P_GRIHINI],
    [dob |-> DobDates[2], profession |-> P_GRIHINI],
    [dob |-> DobDates[3], profession |-> P_SORKARI_CHAKURI]>>

\* the pairs with surrounding whitespace stripped
StripPairs(pairs) ==
    [k \in 1..Len(pairs) |->
        [dob |-> strip(pairs[k].dob), profession |-> strip(pairs[k].profession)]]

\* C11: for the line with the three date/profession groups, the corrupted
\* date marker replaced by the canonical one, each of the three extractions
\* (the test's regex, v1's extract_dob_profession, the v2 date branch)
\* returns exactly the 3 (date, profession) pairs of the line, in line order.
C11_DobScenario ==
    (pc = "returned" /\ replace(text, KW_DOB_ALIAS, KW_DOB) = replace(test_text, KW_DOB_ALIAS, KW_DOB))
        => StripPairs(results) = ScenarioPairs

\* C12: applying a normalizer to its own result changes nothing.
C12_NormalizeIdempotent ==
    (pc = "returned" /\ version \in Normalizers) => Normalize(version, results) = results

\* the positions of a vowel sign that stands before a consonant and is not
\* itself preceded by a consonant
Misplaced(t) ==
    {p \in 1..(Len(t) - 1) :
        /\ t[p] = IKAR
        /\ IsConsonant(t[p + 1])
        /\ (p = 1 \/ ~IsConsonant(t[p - 1]))}

\* each misplaced vowel sign swapped with the consonant after it, every other
\* character left where it is
Reposition(t) ==
    [k \in 1..Len(t) |->
        IF k \in Misplaced(t) THEN t[k + 1]
        ELSE IF (k - 1) \in Misplaced(t) THEN IKAR
        ELSE t[k]]

\* C13: fix_ikar_position moves exactly the vowel signs that are not preceded
\* by a consonant in its argument, each to just after the next consonant; a
\* vowel sign that follows a consonant in the argument stays, so a text in
\* consonant + vowel-sign order comes back unchanged.
C13_CanonicalOrderKept ==
    (pc = "returned" /\ version = "fix_ikar_position" /\ text.type = "str")
        => results = PyStr(Reposition(text.val))

\* the expected results for the words of the corruption corpus
Corrected(fn, w) ==
    CASE fn = "fix_ikar_position" /\ w = W_NIMMI -> <<2472, 2495, 2478, 2509, 2478, 2496>>
      [] fn = "fix_double_characters" /\ w = W_MOHAMMAD -> <<2478, 2507, 2489, 2494, 2478, 2509, 2478, 2470>>
      [] fn = "fix_double_characters" /\ w = W_KO -> <<2453, 2507>>
      [] fn = "_clean_bengali_text" /\ w = W_VATAR -> <<2477, 2507, 2463, 2494, 2480>>
      [] OTHER -> <<-1>>

\* C14: the vowel-sign repositioning maps "inmmi" to "nimmi", the doubled-
\* consonant collapse maps "mmohammad" to "mohammad" and "kko" to "ko", the
\* correction table maps "vatar" to "votar": the result is exactly that word.
C14_LiteralTransformations ==
    (pc = "returned" /\ version \in Normalizers /\ text.type = "str"
        /\ Corrected(version, text.val) # <<-1>>)
        => results = PyStr(Corrected(version, text.val))

\* the correction table has been applied to "vatar"
C14_Witness ==
    /\ pc = "returned"
    /\ version = "_clean_bengali_text"
    /\ text = PyStr(W_VATAR)
    /\ results = PyStr(Corrected("_clean_bengali_text", W_VATAR))
    /\ results # text

\* C15: every normalizer returns a string without raising, and the empty
\* string for None or the empty string.
C15_NormalizeTotal ==
    (pc = "returned" /\ version \in Normalizers)
        => /\ ~raised
           /\ results.type = "str"
           /\ Falsy(text) => results = PyStr(<<>>)

\* the status a finished run of the pipeline ends with: its last status line
Outcome == results[Len(results)]

\* the step 4 of the run structured the data
Segmented == \E k \in 1..Len(results) : results[k] = "[OK] Structured data"

\* C16: a run whose normalization and segmentation produced zero records
\* ends with a status of its own: neither the status of a run that produced
\* records ('Processing Complete!') nor one of the fatal errors.
C16_EmptyResultDistinct ==
    (version = "pipeline" /\ pc = "exit" /\ Segmented /\ i = 0)
        => /\ Outcome # "Processing Complete!"
           /\ Outcome \notin {"[ERROR] PDF file not found",
                              "[ERROR] No PDF files found in current directory",
                              "[ERROR] Error converting PDF",
                              "[ERROR] No text extracted from PDF",
                              "[ERROR] Error structuring data"}

\* the values that follow the occurrences of a marker in a line
MarkedValues(t, marker) == StripNonEmpty(Tail(split(t, marker)))

\* C17: each v1 extractor returns, in line order, the value that follows each
\* occurrence of its marker: k values for a line of k marked values.
C17_V1ExtractorsReturnMarkedValues ==
    (pc = "returned" /\ version \in V1Extractors)
        => results = MarkedValues(text, MarkerOf(version))

\* the number of non-overlapping occurrences of kw in t
Occurrences(t, kw) == Len(split(t, kw)) - 1

\* the canonical marker of a category that has a corrupted alias, and the alias
CanonicalOf(c) == IF c = "Father" THEN KW_PITA ELSE KW_THIKANA

AliasOf(c) == IF c = "Father" THEN KW_PITA_ALIAS ELSE KW_THIKANA_ALIAS

Consumers(r) ==
    {k \in 1..Len(groups) : \E c \in Categories : Supplied(groups[k], c) /\ SrcOf(groups[k], c) = r}

RecordsOf(k) ==
    SubSeq(structured_data, groups[k].first, groups[k].first + groups[k].count - 1)

\* C21: the values of a group come from the five rows after its anchor and
\* from rows of the stream: the anchor row, the rows before it and the rows
\* more than five after it supply nothing, so the group's records are those
\* of the anchor followed by its next five rows alone.
C21_BoundedForwardWindow ==
    \A k \in 1..Len(groups) :
        LET a == groups[k].anchor
        IN  /\ \A c \in Categories :
                  SrcOf(groups[k], c) # 0 =>
                      /\ SrcOf(groups[k], c) \in (a + 1)..(a + 5)
                      /\ SrcOf(groups[k], c) <= Len(df)
            /\ RecordsOf(k) = AnchorRecords(SubSeq(df, a, Min({a + 5, Len(df)})), 1)

\* a Father line six rows after an anchor whose window holds no Father line:
\* the group has no Father value
C21_Witness ==
    /\ pc = "done"
    /\ Len(df) = 7
    /\ groups # <<>>
    /\ groups[1].anchor = 1
    /\ \A r \in 2..6 : ~Tagged("Father", RowText(df, r))
    /\ Tagged("Father", RowText(df, 7)) /\ ~IsHeaderV2(RowText(df, 7))
    /\ groups[1].lists.fathers = <<>>
    /\ \A n \in 1..groups[1].count : RecordsOf(1)[n].Father = <<>>

\* the date token that immediately follows the marker of a span: the run of
\* digits and slashes at the first position that is not whitespace
DateAfterMarker(part) ==
    LET p == 1 + WsRun(part, 1)
    IN  SubSeq(part, p,
               Min({k \in p..(Len(part) + 1) : k = Len(part) + 1 \/ ~IsDateChar(part[k])}) - 1)

\* the full value of the profession marker of a span: the trimmed text after
\* it, up to the next marker or the end of the span
ProfessionValue(part) ==
    LET pp == Find(part, KW_PESHA, 1)
    IN  IF pp = 0 THEN <<>>
        ELSE strip(SubSeq(part, pp + Len(KW_PESHA),
                          NextMarker(part, pp + Len(KW_PESHA)) - 1))

\* one pair for each occurrence of the date marker
SpanPairs(line) ==
    LET parts == Tail(split(replace(replace(line, KW_DOB_ALIAS, KW_DOB),
                                    KW_PESHA_ALIAS, KW_PESHA), KW_DOB))
    IN  [k \in 1..Len(parts) |->
            [dob |-> DateAfterMarker(parts[k]), profession |-> ProfessionValue(parts[k])]]

\* C22: the date branch of the lookahead gives, for each occurrence of the
\* date marker, the pair of the date token right after the marker and the
\* full trimmed value of the profession marker of the same span; a span with
\* no date token after its marker takes no later digit run as its date.
C22_DobProfessionPairing ==
    (pc = "returned" /\ version = "v2_dob_branch") => results = SpanPairs(text)

\* the positions where a segment of an anchor line begins: a numeral run
\* followed by a period, at the start of the line or after whitespace
SegmentHeads(t) ==
    {p \in 1..Len(t) :
        /\ DigitRun(t, p) >= 1
        /\ StartsWithAt(t, p + DigitRun(t, p), <<46>>)
        /\ (p = 1 \/ IsSpace(t[p - 1]))}

\* the trimmed text of each segment: from after its period up to the next
\* segment or the end of the line
SegmentTexts(t) ==
    LET heads == SegmentHeads(t)
        NextHead(p) == Min({q \in (p + 1)..(Len(t) + 1) : q = Len(t) + 1 \/ q \in heads})
        TextOf(p) == strip(SubSeq(t, p + DigitRun(t, p) + 1, NextHead(p) - 1))
        RECURSIVE From(_)
        From(p) == IF p > Len(t) THEN <<>>
                   ELSE IF p \in heads THEN <<TextOf(p)>> \o From(NextHead(p))
                   ELSE From(p + 1)
    IN  From(1)

\* C23: an anchor line of k '<numeral run>. <text>' segments yields the k
\* trimmed segment texts as names, in line order, also when a text holds a
\* digit.
C23_NameExtraction ==
    (pc = "returned" /\ version \in NameExtractors) => results = SegmentTexts(text)

\* the place in the status log where step 4 reports the structured data
SegmentedAt == CHOOSE k \in 1..Len(results) : results[k] = "[OK] Structured data"

\* the places in the status log where a normalizer stage reports its run
\* over the data: the U+FFFD removal of step 3, the i-kar repositioning and
\* doubled-character collapse of step 5
ReplacementStageAt ==
    {k \in 1..Len(results) :
        results[k] \in {"[OK] Fixed replacement characters",
                        "[OK] No replacement characters found"}}

RepositionStageAt == {k \in 1..Len(results) : results[k] = "[OK] Final file"}

\* no step of the run has failed so far
NoStepFailed ==
    \A k \in 1..Len(results) :
        results[k] \notin {"[WARNING] Could not fix replacement characters",
                           "[WARNING] Could not fix encoding issues"}

\* C24: the rows the segmenter consumes have passed every normalizer stage,
\* and no normalizer stage runs once the records exist: in a run without a
\* failed step the stages stand before the segmentation, none after it, and
\* the records stay as the segmenter produced them.
C24_NormalizeBeforeSegment ==
    (version = "pipeline" /\ Segmented /\ NoStepFailed)
        => /\ \E k \in ReplacementStageAt : k < SegmentedAt
           /\ \E k \in RepositionStageAt : k < SegmentedAt
           /\ \A k \in ReplacementStageAt \cup RepositionStageAt : k < SegmentedAt
           /\ structured_data = structure_voter_data_v2(df)

\* C25: _fix_bijoy_encoding strips U+FFFD before it applies the correction
\* table: its result is the table applied to the argument with every U+FFFD
\* removed, so a table entry interrupted by U+FFFD is still corrected.
C25_MarkerRemovalBeforeTable ==
    (pc = "returned" /\ version = "_fix_bijoy_encoding" /\ text.type = "str")
        => results = PyStr(ReplaceEach(RemoveChars(text.val, {REPLACEMENT_CHAR}), specific_fixes))

LineCleaners == {"_clean_bengali_text", "_clean_text", "clean_text"}

\* C26: what a line cleaner returns neither begins nor ends with whitespace
\* and holds no two consecutive spaces, whatever the argument holds between
\* its spaces.
C26_WhitespacePostcondition ==
    (pc = "returned" /\ version \in LineCleaners)
        => /\ results.type = "str"
           /\ results.val # <<>> =>
                  ~IsSpace(results.val[1]) /\ ~IsSpace(results.val[Len(results.val)])
           /\ \A p \in 1..(Len(results.val) - 1) :
                  ~(results.val[p] = 32 /\ results.val[p + 1] = 32)

\* the length of the run of the character t[p] that begins at p
RunLength(t, p) ==
    Min({n \in 1..(Len(t) - p + 1) : p + n > Len(t) \/ t[p + n] # t[p]})

\* every maximal run of exactly two identical consonants made one
\* occurrence, every other run kept whole
RECURSIVE CollapsePairsFrom(_, _)
CollapsePairsFrom(t, p) ==
    IF p > Len(t) THEN <<>>
    ELSE LET n == RunLength(t, p)
         IN  (IF (\E k \in 1..Len(bengali_consonants) : bengali_consonants[k] = t[p]) /\ n = 2
              THEN <<t[p]>>
              ELSE SubSeq(t, p, p + n - 1))
             \o CollapsePairsFrom(t, p + n)

\* C27: after the table of known doubled prefixes, fix_double_characters
\* makes a run of exactly two identical consonants a single one and leaves a
\* run of three or more as it is.
C27_DoubledConsonantCollapse ==
    (pc = "returned" /\ version = "fix_double_characters" /\ text.type = "str")
        => results = PyStr(CollapsePairsFrom(ReplaceEach(text.val, double_chars), 1))

\* the records of the loop turns at rows 1 .. n, in row order
RECURSIVE EmittedUpTo(_)
EmittedUpTo(n) ==
    IF n = 0 THEN <<>> ELSE EmittedUpTo(n - 1) \o TurnRecords(df, n)

\* the records stand in the order of their anchor rows and, for one anchor,
\* in increasing index order
InEmissionOrder ==
    /\ structured_data = EmittedUpTo(i - 1)
    /\ \A k \in 1..Len(groups) :
          /\ k > 1 => /\ groups[k - 1].anchor < groups[k].anchor
                      /\ groups[k].first = groups[k - 1].first + groups[k - 1].count
          /\ \A n \in 1..Len(groups[k].names) : RecordsOf(k)[n].Name = groups[k].names[n]

\* a step appends to the record list or leaves it alone
AppendsOnly ==
    /\ Len(structured_data') >= Len(structured_data)
    /\ SubSeq(structured_data', 1, Len(structured_data)) = structured_data

\* C28: during structure_voter_data the record list only grows at its end:
\* no emitted record is changed, removed or moved by a later turn, and the
\* records stand in the order of their anchor lines, each anchor's records
\* in increasing index order.
C28_AppendOnlyEmission == [](version = "v2" => InEmissionOrder) /\ [][AppendsOnly]_vars

\* two anchors have emitted, the first more than one record
C28_Witness ==
    /\ version = "v2"
    /\ pc = "done"
    /\ Len(groups) >= 2
    /\ groups[1].count >= 2
    /\ groups[2].count >= 1
    /\ Len(structured_data) >= 3
    /\ structured_data[1] # structured_data[3]

\* how often the character c occurs in t
CountOf(t, c) == Cardinality({p \in 1..Len(t) : t[p] = c})

\* C29: fix_ikar_position of fix_ikar_auto.py returns a permutation of its
\* argument: the same length, each character as often as before, and a
\* position holds another character than before only where a vowel sign i
\* and a consonant have changed places.
C29_IkarOnlyPermutes ==
    (pc = "returned" /\ version = "fix_ikar_position" /\ text.type = "str")
        => /\ results.type = "str"
           /\ Len(results.val) = Len(text.val)
           /\ \A p \in 1..Len(text.val) :
                  CountOf(results.val, text.val[p]) = CountOf(text.val, text.val[p])
           /\ \A p \in 1..Len(text.val) :
                  results.val[p] # text.val[p] =>
                      \/ text.val[p] = IKAR /\ IsConsonant(results.val[p])
                      \/ IsConsonant(text.val[p]) /\ results.val[p] = IKAR

\* a vowel sign after a vowel sign aa has been moved behind its consonant
C29_Witness ==
    /\ pc = "returned"
    /\ version = "fix_ikar_position"
    /\ text = PyStr(<<2453, 2494, IKAR, 2454>>)
    /\ results = PyStr(<<2453, 2494, 2454, IKAR>>)

FatalErrors ==
    {"[ERROR] PDF file not found",
     "[ERROR] No PDF files found in current directory",
     "[ERROR] Error converting PDF",
     "[ERROR] No text extracted from PDF",
     "[ERROR] Error structuring data"}

\* the status line k is in the log
Logged(line) == \E k \in 1..Len(results) : results[k] = line

\* C30: a failure of step 2 (no text extracted included) or of step 4 ends
\* the run with no later step run; a failure of step 3 or of step 5 is not
\* fatal, the later steps run, and after a failure of step 5 the final file
\* is the structured file; no exception leaves main.
C30_PipelineFailureFlow ==
    version = "pipeline" =>
        /\ ~raised
        /\ \A k \in 1..Len(results) :
              results[k] \in FatalErrors => k = Len(results) /\ pc = "exit"
        /\ (Logged("[ERROR] Error converting PDF") \/ Logged("[ERROR] No text extracted from PDF"))
              => /\ structured_data = <<>>
                 /\ pages_data.structured_file = "" /\ pages_data.final_file = ""
                 /\ ~Logged("[OK] No replacement characters found")
                 /\ ~Logged("[OK] Fixed replacement characters")
        /\ Logged("[ERROR] Error structuring data")
              => /\ structured_data = <<>>
                 /\ pages_data.final_file = ""
                 /\ ~Logged("[OK] Final file") /\ ~Logged("Processing Complete!")
        /\ Logged("[WARNING] Could not fix replacement characters")
              => /\ pc \in {"step4", "step5", "summary", "exit"}
                 /\ pc = "exit" => results[Len(results)] \in FatalErrors \cup {"Processing Complete!"}
                 /\ pc = "exit" => (Segmented \/ Logged("[ERROR] Error structuring data"))
        /\ Logged("[WARNING] Could not fix encoding issues")
              => /\ pc \in {"summary", "exit"}
                 /\ pc = "exit" => results[Len(results)] = "Processing Complete!"
                 /\ pages_data.final_file = pages_data.structured_file
                 /\ pages_data.structured_file # ""

\* a run in which step 3 and step 5 failed has ended with the closing banner
C30_Witness ==
    /\ version = "pipeline"
    /\ pc = "exit"
    /\ Logged("[WARNING] Could not fix replacement characters")
    /\ Logged("[WARNING] Could not fix encoding issues")
    /\ results[Len(results)] = "Processing Complete!"
    /\ structured_data # <<>>
    /\ pages_data.final_file = "pdf_structured.csv"

====
